---------------------------- MODULE Spec2Model ----------------------------
(* Model of the window manager of the desktop shell                        *)
(* (packages/main/src/classes/window-manager.ts): the registry of windows, *)
(* window creation, the per-window IPC command router and the              *)
(* close-promise wiring.                                                   *)
EXTENDS Integers, Sequences, FiniteSets, TLC

\* ------------------------------------------------------------------ bounds
\* Number of browser windows (managed or not) ever constructed in a run.
MaxWindows == 2
\* Number of events (IPC messages, native close events) delivered in a run.
MaxEvents == 3
\* Longest argument array carried by a window-close message.
MaxArgs == 1
\* Largest width/height used in creation configs and resize payloads.
MaxDim == 2

\* ------------------------------------------------------- JavaScript values
\* Every value is a record [t, v]: t is the JavaScript type, v a sequence
\* holding the content (the elements of an array, the one string, the id).
Undefined == [t |-> "undefined", v |-> <<>>]
Null == [t |-> "null", v |-> <<>>]
Str(s) == [t |-> "string", v |-> <<s>>]
Num(n) == [t |-> "number", v |-> <<n>>]
Array(xs) == [t |-> "array", v |-> xs]
Win(id) == [t |-> "window", v |-> <<id>>]
PromiseOf(id) == [t |-> "promise", v |-> <<id>>]
Bool(b) == [t |-> "boolean", v |-> <<b>>]
\* An object literal: its properties, in order, as pairs of key and value.
Object(properties) == [t |-> "object", v |-> properties]
\* The value of a call of an async method that has not returned yet.
Unsettled == [t |-> "unsettled", v |-> <<>>]

\* JavaScript truthiness (`!!e`, `if (args)`): undefined, null and the empty
\* string are falsy; arrays (even empty), windows and other strings are truthy.
Truthy(x) ==
  /\ x.t \notin {"undefined", "null"}
  /\ ~(x.t = "string" /\ x.v = <<"">>)
  /\ ~(x.t = "number" /\ x.v = <<0>>)
  /\ ~(x.t = "boolean" /\ x.v = <<FALSE>>)

\* `x ?? d`: d only when x is null or undefined.
Nullish(x, d) == IF x.t \in {"undefined", "null"} THEN d ELSE x

\* ---------------------------------------------------------------- options
\* IWindowOptions: an absent minSize/maxSize is NoSize.
Size(w, h) == [width |-> w, height |-> h]
NoSize == [width |-> -1, height |-> -1]
Present(s) == s # NoSize

Max(a, b) == IF a >= b THEN a ELSE b
Min(a, b) == IF a <= b THEN a ELSE b

\* Names a caller may give a window (any string, the empty one included).
Names == {"", "main", "login"}
\* Elements a renderer puts in the argument array of a window-close message.
Atoms == {Str("saved"), Str("discard")}

Dims == 1..MaxDim
Sizes == {Size(w, h) : w \in Dims, h \in Dims}

\* Sequences over S of length 0..n.
RECURSIVE SeqsUpTo(_, _)
SeqsUpTo(S, n) ==
  IF n = 0 THEN {<<>>}
  ELSE LET shorter == SeqsUpTo(S, n - 1)
       IN shorter \cup {Append(s, x) : s \in {q \in shorter : Len(q) = n - 1}, x \in S}

VARIABLES
  WindowsList,   \* #WindowsList: the registry, as its entries in key order
  windows,       \* the host's BrowserWindow objects, indexed by their id
  wiring,        \* per window: what the listeners of createBaseWindow captured
  promise,       \* per window: the close-promise
  oncloseCalls,  \* per window: the argument lists the close callback was called with
  outbox,        \* per window: the messages sent to its content
  fired,         \* per window: the close edges its listeners have handled
  errors,        \* the methods whose exception the catch-all decorator swallowed
  uncaught,      \* the windows one of whose listeners threw
  result,        \* the last call of a method of the manager and what it returned
  store,         \* shared.store: the persisted settings (read only here)
  isDev,         \* shared.isDev: development mode
  nEvents,       \* events delivered so far
  initialized,   \* the logging configurator: whether init has completed
  configuration, \* the logging configuration loaded by init
  logFiles,      \* the records written to the log files
  i18next,       \* the translation engine the localization loader drives
  directory,     \* the entries of the translation resource directory
  bridge,        \* the preload bridge: what it forwarded to the main process
  frames,        \* the calls of createMainWindow: what each captured before its await
  desktop,       \* what the manager asked of the desktop: browser and clipboard
  userInfo       \* the user-info component of the renderer

\* The state of the window manager and of its host.
manager == <<WindowsList, windows, wiring, promise, oncloseCalls, outbox, fired,
             errors, uncaught, result, store, isDev, nEvents>>
\* The windows, their wiring and what the manager and the host did to them.
manager_windows == <<WindowsList, windows, wiring, promise, oncloseCalls, outbox,
                     fired, errors, uncaught>>
\* The state of the other components of the main process, of the resource
\* directory they read and of the bridge.
components == <<initialized, configuration, logFiles, i18next, directory, bridge,
                userInfo>>
\* The same with the suspended calls of createMainWindow and the desktop:
\* all that the listeners of a window leave alone.
services == <<components, frames, desktop>>

vars == <<WindowsList, windows, wiring, promise, oncloseCalls, outbox, fired,
          errors, uncaught, result, store, isDev, nEvents,
          initialized, configuration, logFiles, i18next, directory, bridge,
          frames, desktop, userInfo>>

Ids == 1..Len(windows)

\* ---------------------------------------------------------------- registry
\* The index of the entry of `name` in the registry, 0 when there is none.
IndexOf(list, name) ==
  IF \E i \in 1..Len(list) : list[i].name = name
  THEN CHOOSE i \in 1..Len(list) : list[i].name = name
  ELSE 0

\* A variant of the assignment that adds an entry even when the key exists.
PutAppend(list, name, rec) ==
  Append(list, [name |-> name, window |-> rec.window, options |-> rec.options])

\* `this.#WindowsList[name] = rec`: an existing key keeps its place.
Put(list, name, rec) ==
  LET e == [name |-> name, window |-> rec.window, options |-> rec.options]
      i == IndexOf(list, name)
  IN IF i = 0 THEN Append(list, e) ELSE [list EXCEPT ![i] = e]

RegisteredNames(list) == {list[i].name : i \in 1..Len(list)}
RegisteredIds(list) == {list[i].window : i \in 1..Len(list)}


\* ------------------------------------------------------------ settings store
\* The key `menubar-${name}` of a window name.
MenubarKey(name) ==
  CASE name = "main" -> "menubar-main"
    [] name = "login" -> "menubar-login"
    [] OTHER -> "menubar-"

StoreKeys ==
  {"main-width", "main-height", "main-maximized", "menubar",
   "open-links-in-default-browser"} \cup {MenubarKey(n) : n \in Names}

EmptyStore == [k \in StoreKeys |-> Undefined]
\* The settings files a run may start from.
Stores ==
  {EmptyStore,
   [EmptyStore EXCEPT !["menubar-main"] = Str("on")],
   [EmptyStore EXCEPT !["main-maximized"] = Bool(TRUE)]}

\* shared.store.has(key)
StoreHas(st, key) == st[key] # Undefined
\* shared.store.get(key, default)
StoreGet(st, key, default) == IF st[key] # Undefined THEN st[key] ELSE default

\* ------------------------------------------------------- catch-all decorator
\* An outcome of a method body: what it returns, or that it threw.
Return(x) == [ret |-> x, threw |-> FALSE]
Throw == [ret |-> Undefined, threw |-> TRUE]

\* @CatchAll(ehandler): an exception of the body is handed to the handler,
\* which logs it; the call then returns undefined instead of throwing.
CatchAll(outcome) == IF outcome.threw THEN Return(Undefined) ELSE outcome

\* ------------------------------------------------------------------- get
\* The first element of a sequence of values that satisfies nothing but
\* position: Array.prototype.shift / find on an empty result give undefined.
First(xs) == IF Len(xs) = 0 THEN Undefined ELSE xs[1]

\* A variant of get that only looks names up.
GetBodyByNameOnly(list, arg) ==
  IF arg.t = "string"
  THEN LET i == IndexOf(list, arg.v[1])
       IN IF i = 0 THEN Throw ELSE Return(Nullish(Win(list[i].window), Null))
  ELSE Return(Null)

\* The body of get: by name it reads `.window` of the entry, which throws a
\* TypeError when there is no entry; by id it scans the registry's values.
GetBody(list, arg) ==
  IF arg.t = "string"
  THEN LET i == IndexOf(list, arg.v[1])
       IN IF i = 0 THEN Throw ELSE Return(Nullish(Win(list[i].window), Null))
  ELSE IF arg.t = "number"
  THEN LET found == SelectSeq([i \in 1..Len(list) |-> Win(list[i].window)],
                              LAMBDA w : w.v[1] = arg.v[1])
       IN Return(Nullish(First(found), Null))
  ELSE Return(Null)

Get(list, arg) == CatchAll(GetBody(list, arg))

\* ---------------------------------------------------------------- getName
\* Object.entries(list).map(...).filter((e) => !!e).shift() ?? null
GetNameBody(list, id) ==
  LET mapped == [i \in 1..Len(list) |->
                   IF list[i].window = id THEN Str(list[i].name) ELSE Undefined]
      kept == SelectSeq(mapped, Truthy)
  IN Return(Nullish(First(kept), Null))

GetName(list, id) == CatchAll(GetNameBody(list, id))

\* ---------------------------------------------------------- host windows
\* A variant that hands the requested height to the host as the width and
\* the width as the height.
NewBrowserWindowSwapped(options) ==
  [size |-> Size(options.size.height, options.size.width),
   minSize |-> options.minSize,
   maxSize |-> options.maxSize,
   show |-> FALSE,
   menuBar |-> FALSE,
   centered |-> FALSE,
   resizePending |-> FALSE,
   closeRequested |-> FALSE,
   closeEmitted |-> FALSE,
   closed |-> FALSE,
   maximized |-> FALSE,
   ready |-> FALSE,
   loading |-> FALSE,
   loads |-> 0]

\* new BrowserWindow({...}): the handle as the host constructs it from the
\* options createBaseWindow passes. The width and height are the requested
\* ones; minSize and maxSize go to the host as its size constraints.
\* It is constructed hidden (show: false); the other fields are the host's:
\* whether it emitted "ready-to-show", whether a loadURL is in progress, and
\* how many times its content signalled "dom-ready".
NewBrowserWindow(options) ==
  [size |-> Size(options.size.width, options.size.height),
   minSize |-> options.minSize,
   maxSize |-> options.maxSize,
   show |-> FALSE,
   menuBar |-> FALSE,
   centered |-> FALSE,
   resizePending |-> FALSE,
   closeRequested |-> FALSE,
   closeEmitted |-> FALSE,
   closed |-> FALSE,
   maximized |-> FALSE,
   ready |-> FALSE,
   loading |-> FALSE,
   loads |-> 0]

\* What the listeners registered by createBaseWindow hold on to: the options
\* they close over, the closeWithIPC flag of createClosePromise, and whether
\* the one-shot dom-ready listener is still registered.
NewWiring(options) ==
  [managed |-> TRUE, options |-> options, closeWithIPC |-> FALSE, domReadyOnce |-> TRUE,
   windowOpenHandler |-> FALSE]

NoOptions ==
  [name |-> "", size |-> NoSize, minSize |-> NoSize, maxSize |-> NoSize,
   onclose |-> FALSE, args |-> Undefined]
NoWiring ==
  [managed |-> FALSE, options |-> NoOptions, closeWithIPC |-> FALSE, domReadyOnce |-> FALSE,
   windowOpenHandler |-> FALSE]

\* The close-promise of a window: none (createBaseWindow returned null),
\* pending, or fulfilled with a value. There is no reject.
NoPromise == [state |-> "none", value |-> Undefined]
Pending == [state |-> "pending", value |-> Undefined]
\* resolve(value): only the first call settles the promise.
Resolve(p, value) ==
  IF p.state = "pending" THEN [state |-> "fulfilled", value |-> value] ELSE p

\* ------------------------------------------------------- createBaseWindow
\* shared.store.has(`menubar-${options.name}`) ?? false, then
\* w.setMenuBarVisibility(shared.isDev || enableMenuBar)
MenuBarVisibility(st, dev, name) == dev \/ StoreHas(st, MenubarKey(name))

\* A variant of the last line of createBaseWindow that wires a close-promise
\* whether or not a callback was given.
ClosePromiseAlways(options) == Pending

\* A variant in which the promise of a window with a callback is settled from
\* the start.
ClosePromiseSettled(options) ==
  IF options.onclose THEN [state |-> "fulfilled", value |-> Null] ELSE NoPromise

\* options.onclose ? this.createClosePromise(w, options.onclose) : null
ClosePromiseFor(options) == IF options.onclose THEN Pending ELSE NoPromise

createBaseWindow(options) ==
  /\ Len(windows) < MaxWindows
  /\ LET id == Len(windows) + 1
         bw == NewBrowserWindow(options)
         list == Put(WindowsList, options.name, [window |-> id, options |-> options])
         w == list[IndexOf(list, options.name)].window
         p == ClosePromiseFor(options)
     IN /\ WindowsList' = list
        /\ windows' = Append(windows,
             [bw EXCEPT !.menuBar = MenuBarVisibility(store, isDev, options.name)])
        /\ wiring' = Append(wiring, NewWiring(options))
        /\ promise' = Append(promise, p)
        /\ oncloseCalls' = Append(oncloseCalls, <<>>)
        /\ outbox' = Append(outbox, <<>>)
        /\ fired' = Append(fired, <<>>)
        /\ result' = [op |-> "createBaseWindow", arg |-> Str(options.name),
                      ret |-> IF p.state = "none" THEN Null ELSE PromiseOf(w),
                      threw |-> FALSE]
  /\ UNCHANGED <<errors, uncaught, store, isDev, services, nEvents>>

\* -------------------------------------------------------- createMainWindow
\* WindowMinimumSize.MAIN
WindowMinimumSizeMAIN == Size(1024, 620)

\* The options createMainWindow passes to createBaseWindow: the saved size
\* (or the minimum one), the minimum size, the callback and the arguments.
\* A variant of the options of the main window that reads the settings
\* without defaults of its own, taking absent ones as zero and false.
MainOptionsWithoutDefaults(st, onclose) ==
  [name |-> "main",
   size |-> Size(StoreGet(st, "main-width", Num(0)).v[1],
                 StoreGet(st, "main-height", Num(0)).v[1]),
   minSize |-> WindowMinimumSizeMAIN,
   maxSize |-> NoSize,
   onclose |-> onclose,
   args |-> Object(<< <<"menubar", StoreGet(st, "menubar", Bool(FALSE))>>,
                      <<"open-copy-links",
                        StoreGet(st, "open-links-in-default-browser", Bool(FALSE))>> >>)]

\* The options createMainWindow hands to createBaseWindow: size and args are
\* read from the settings, each with its default.
MainOptions(st, onclose) ==
  [name |-> "main",
   size |-> Size(StoreGet(st, "main-width", Num(WindowMinimumSizeMAIN.width)).v[1],
                 StoreGet(st, "main-height", Num(WindowMinimumSizeMAIN.height)).v[1]),
   minSize |-> WindowMinimumSizeMAIN,
   maxSize |-> NoSize,
   onclose |-> onclose,
   args |-> Object(<< <<"menubar", StoreGet(st, "menubar", Bool(FALSE))>>,
                      <<"open-copy-links",
                        StoreGet(st, "open-links-in-default-browser", Bool(TRUE))>> >>)]

\* w.maximize(): the host maximizes the window, and shows it if it is not
\* displayed yet.
Maximize(handle) == [handle EXCEPT !.maximized = TRUE, !.show = TRUE]

\* The handle after the lines of createMainWindow that follow get("main"):
\* maximized when the store says so, and loading its page.
MainHandle(st, handle) ==
  [(IF Truthy(StoreGet(st, "main-maximized", Bool(FALSE)))
    THEN Maximize(handle) ELSE handle) EXCEPT !.loading = TRUE]

\* The body of createMainWindow from get("main") on: with no usable handle
\* (get returned undefined, or a destroyed window) a call on it throws;
\* otherwise the method waits for windowLoad.
MainWindowBody(w, ws) ==
  IF w.t = "window" /\ ~ws[w.v[1]].closed THEN Return(Unsettled) ELSE Throw

\* A variant of createMainWindow without its decorator.
MainWindowCallUndecorated(w, ws) == MainWindowBody(w, ws)

\* createMainWindow as decorated with @CatchAll(ehandler).
MainWindowCall(w, ws) == CatchAll(MainWindowBody(w, ws))

\* windowLoad, decorated: loadURL resolves, or rejects and is swallowed.
WindowLoad(ok) == CatchAll(IF ok THEN Return(Undefined) ELSE Throw)

\* What a call of createMainWindow keeps in its locals across the await: the
\* handle w, the promise it will return, and, once it has returned, its value.
Frame(w, onClosePromise, call) ==
  [w |-> w, onClosePromise |-> onClosePromise,
   awaiting |-> call.ret = Unsettled, ret |-> call.ret]

\* w.webContents.setWindowOpenHandler(...) on the handle the call works on.
SetWindowOpenHandler(wr, w) == [wr EXCEPT ![w.v[1]].windowOpenHandler = TRUE]

\* A call of createMainWindow, up to its `await`. The host constructs the
\* BrowserWindow or throws (constructs = FALSE); in the latter case
\* createBaseWindow returns undefined and get("main") finds an earlier main
\* window or nothing. result.arg holds what the suspended call keeps: the
\* handle w and the value it will return.
createMainWindow(onclose, constructs) ==
  LET options == MainOptions(store, onclose)
  IN /\ Len(frames) < MaxEvents
     /\ IF constructs
        THEN /\ Len(windows) < MaxWindows
             /\ LET id == Len(windows) + 1
                    bw == [NewBrowserWindow(options) EXCEPT
                             !.menuBar = MenuBarVisibility(store, isDev, options.name)]
                    list == Put(WindowsList, options.name,
                                [window |-> id, options |-> options])
                    p == ClosePromiseFor(options)
                    onClosePromise == IF p.state = "none" THEN Null ELSE PromiseOf(id)
                    w == Get(list, Str("main")).ret
                    call == MainWindowCall(w, Append(windows, bw))
                IN /\ WindowsList' = list
                   /\ windows' = Append(windows, MainHandle(store, bw))
                   /\ wiring' = SetWindowOpenHandler(Append(wiring, NewWiring(options)), w)
                   /\ promise' = Append(promise, p)
                   /\ oncloseCalls' = Append(oncloseCalls, <<>>)
                   /\ outbox' = Append(outbox, <<>>)
                   /\ fired' = Append(fired, <<>>)
                   /\ frames' = Append(frames, Frame(w, onClosePromise, call))
                   /\ result' = [op |-> "createMainWindow",
                                 arg |-> Array(<<w, onClosePromise>>),
                                 ret |-> call.ret, threw |-> call.threw]
             /\ UNCHANGED <<errors, uncaught, store, isDev, components, desktop, nEvents>>
        ELSE /\ LET w == Get(WindowsList, Str("main")).ret
                    body == MainWindowBody(w, windows)
                    call == MainWindowCall(w, windows)
                IN /\ windows' = IF body.threw THEN windows
                                  ELSE [windows EXCEPT ![w.v[1]] = MainHandle(store, @)]
                   /\ wiring' = IF body.threw THEN wiring
                                 ELSE SetWindowOpenHandler(wiring, w)
                   /\ errors' = errors \cup {"createBaseWindow"}
                                   \cup (IF GetBody(WindowsList, Str("main")).threw
                                         THEN {"get"} ELSE {})
                                   \cup (IF body.threw THEN {"createMainWindow"} ELSE {})
                   /\ frames' = Append(frames, Frame(w, Undefined, call))
                   /\ result' = [op |-> "createMainWindow",
                                 arg |-> Array(<<w, Undefined>>),
                                 ret |-> call.ret, threw |-> call.threw]
             /\ UNCHANGED <<WindowsList, promise, oncloseCalls, outbox, fired,
                            uncaught, store, isDev, components, desktop, nEvents>>

\* A variant of the resumption in which the calls share one slot for the
\* promise to return, so that each returns what the newest call stored.
ResumeSharing(fs, id) ==
  [i \in DOMAIN fs |->
     IF fs[i].awaiting /\ fs[i].w = Win(id)
     THEN [fs[i] EXCEPT !.awaiting = FALSE, !.ret = fs[Len(fs)].onClosePromise]
     ELSE fs[i]]

\* `await this.windowLoad(w); return onClosePromise`: the calls suspended on
\* the load of window id return, each the promise it captured.
Resume(fs, id) ==
  [i \in DOMAIN fs |->
     IF fs[i].awaiting /\ fs[i].w = Win(id)
     THEN [fs[i] EXCEPT !.awaiting = FALSE, !.ret = fs[i].onClosePromise]
     ELSE fs[i]]

\* The loadURL of window id ends: the page finished loading (ok), or the
\* load failed. A call of createMainWindow suspended on it returns.
loadEnd(id, ok) ==
  /\ id \in Ids
  /\ windows[id].loading
  /\ windows' = [windows EXCEPT ![id].loading = FALSE]
  /\ errors' = IF ok THEN errors ELSE errors \cup {"windowLoad"}
  /\ frames' = Resume(frames, id)
  /\ result' = IF /\ result.op = "createMainWindow"
                  /\ result.ret = Unsettled
                  /\ result.arg.v[1] = Win(id)
               THEN [result EXCEPT !.ret = result.arg.v[2],
                                   !.threw = WindowLoad(ok).threw]
               ELSE result
  /\ UNCHANGED <<WindowsList, wiring, promise, oncloseCalls, outbox, fired,
                 uncaught, store, isDev, components, desktop, nEvents>>

\* ------------------------------------------------------ window-open handler
\* `{ action: "deny" }`: what the handler answers the host.
Deny == Object(<< <<"action", Str("deny")>> >>)

\* shared.store.get("open-links-in-default-browser", true), read by the
\* handler when it runs.
OpenLink(st) == StoreGet(st, "open-links-in-default-browser", Bool(TRUE))

\* A variant of the handler that copies the URL whatever the setting says,
\* and opens it as well when the setting says so.
WindowOpenHandlerCopying(d, st, url) ==
  LET copied == [d EXCEPT !.writeText = Append(@, <<url, "selection">>)]
  IN IF Truthy(OpenLink(st))
     THEN [copied EXCEPT !.openExternal = Append(@, url)]
     ELSE copied

\* The handler of setWindowOpenHandler: shell.openExternal(details.url) when
\* the setting is truthy, clipboard.writeText(details.url, "selection")
\* otherwise.
WindowOpenHandler(d, st, url) ==
  IF Truthy(OpenLink(st))
  THEN [d EXCEPT !.openExternal = Append(@, url)]
  ELSE [d EXCEPT !.writeText = Append(@, <<url, "selection">>)]

\* The content of window id asks for a new window showing url (a link with
\* a target, window.open): the host calls the handler installed on the
\* window and, as the handler denies, creates no window.
windowOpen(id, url) ==
  /\ id \in Ids
  /\ wiring[id].windowOpenHandler
  /\ ~windows[id].closed
  /\ nEvents < MaxEvents
  /\ nEvents' = nEvents + 1
  /\ desktop' = WindowOpenHandler(desktop, store, url)
  /\ result' = [op |-> "windowOpenHandler", arg |-> Str(url), ret |-> Deny,
                threw |-> FALSE]
  /\ UNCHANGED <<manager_windows, store, isDev, components, frames>>

\* Other code of the application saves the user's choice for links, or
\* removes it from the settings.
storeSet(value) ==
  /\ store["open-links-in-default-browser"] # value
  /\ store' = [store EXCEPT !["open-links-in-default-browser"] = value]
  /\ UNCHANGED <<manager_windows, result, isDev, nEvents, services>>

\* A BrowserWindow constructed by other code than the manager: it takes the
\* next id of the host and is in no registry.
foreignWindow(size) ==
  /\ Len(windows) < MaxWindows
  /\ windows' = Append(windows,
       NewBrowserWindow([NoOptions EXCEPT !.size = size]))
  /\ wiring' = Append(wiring, NoWiring)
  /\ promise' = Append(promise, NoPromise)
  /\ oncloseCalls' = Append(oncloseCalls, <<>>)
  /\ outbox' = Append(outbox, <<>>)
  /\ fired' = Append(fired, <<>>)
  /\ UNCHANGED <<WindowsList, errors, uncaught, result, store, isDev, services, nEvents>>

\* ------------------------------------------------------------ get, getName
get(arg) ==
  /\ result' = [op |-> "get", arg |-> arg, ret |-> Get(WindowsList, arg).ret,
                threw |-> Get(WindowsList, arg).threw]
  /\ errors' = IF GetBody(WindowsList, arg).threw THEN errors \cup {"get"} ELSE errors
  /\ UNCHANGED <<WindowsList, windows, wiring, promise, oncloseCalls, outbox, fired,
                 uncaught, store, isDev, services, nEvents>>

getName(id) ==
  /\ id \in Ids
  /\ result' = [op |-> "getName", arg |-> Win(id), ret |-> GetName(WindowsList, id).ret,
                threw |-> GetName(WindowsList, id).threw]
  /\ errors' = IF GetNameBody(WindowsList, id).threw THEN errors \cup {"getName"} ELSE errors
  /\ UNCHANGED <<WindowsList, windows, wiring, promise, oncloseCalls, outbox, fired,
                 uncaught, store, isDev, services, nEvents>>

\* ------------------------------------------------------ IPC command router
\* A variant of the resize closure that clamps the height against the widths
\* of minSize and maxSize.
ClampToOptionsWidthOnly(width, height, options) ==
  LET w1 == IF Present(options.minSize) THEN Max(width, options.minSize.width) ELSE width
      h1 == IF Present(options.minSize) THEN Max(height, options.minSize.width) ELSE height
      w2 == IF Present(options.maxSize) THEN Min(w1, options.maxSize.width) ELSE w1
      h2 == IF Present(options.maxSize) THEN Min(h1, options.maxSize.width) ELSE h1
  IN Size(w2, h2)

\* A variant of the resize closure that lowers to maxSize first and raises to
\* minSize second.
ClampToOptionsMaxFirst(width, height, options) ==
  LET w1 == IF Present(options.maxSize) THEN Min(width, options.maxSize.width) ELSE width
      h1 == IF Present(options.maxSize) THEN Min(height, options.maxSize.height) ELSE height
      w2 == IF Present(options.minSize) THEN Max(w1, options.minSize.width) ELSE w1
      h2 == IF Present(options.minSize) THEN Max(h1, options.minSize.height) ELSE h1
  IN Size(w2, h2)

\* The resize closure of windowIPCHandler: the payload [width, height] raised
\* to minSize, then lowered to maxSize, each only when the record has it.
ClampToOptions(width, height, options) ==
  LET w1 == IF Present(options.minSize) THEN Max(width, options.minSize.width) ELSE width
      h1 == IF Present(options.minSize) THEN Max(height, options.minSize.height) ELSE height
      w2 == IF Present(options.maxSize) THEN Min(w1, options.maxSize.width) ELSE w1
      h2 == IF Present(options.maxSize) THEN Min(h1, options.maxSize.height) ELSE h1
  IN Size(w2, h2)

\* The state the listeners of one event work on, threaded through them.
Host(ws, ob, errs) == [windows |-> ws, outbox |-> ob, errors |-> errs]

\* webContents.send(channel, payload) to the content of window id.
Send(ob, id, channel, payload) ==
  [ob EXCEPT ![id] = Append(@, [channel |-> channel, payload |-> payload])]

\* w.window.setSize(width, height): the host resizes the handle and, when the
\* size changed, will emit "resize".
SetSize(h, id, size) ==
  IF h.windows[id].size = size THEN h
  ELSE [h EXCEPT !.windows[id].size = size, !.windows[id].resizePending = TRUE]

\* A variant of windowIPCHandler that calls map[channel]() without testing
\* the channel first: on a channel outside the map the call throws.
windowIPCHandlerNoFilter(h, rec, channel, args) ==
  LET target == rec.window
      dead == h.windows[target].closed
      failed == [h EXCEPT !.errors = @ \cup {"windowIPCHandler"}]
  IN CASE channel = "window-resize" ->
            IF dead THEN failed
            ELSE SetSize(h, target,
                         ClampToOptions(args[1].v[1], args[2].v[1], rec.options))
       [] channel = "window-size" ->
            IF dead THEN failed
            ELSE [h EXCEPT !.outbox = Send(@, target, "window-size", h.windows[target].size)]
       [] channel = "window-center" ->
            IF dead THEN failed
            ELSE [h EXCEPT !.windows[target].centered = TRUE]
       [] OTHER -> failed

\* A variant of windowIPCHandler whose map has a fourth command, window-close,
\* that closes the handle.
windowIPCHandlerClosing(h, rec, channel, args) ==
  LET target == rec.window
      dead == h.windows[target].closed
      failed == [h EXCEPT !.errors = @ \cup {"windowIPCHandler"}]
  IN CASE channel = "window-resize" ->
            IF dead THEN failed
            ELSE SetSize(h, target,
                         ClampToOptions(args[1].v[1], args[2].v[1], rec.options))
       [] channel = "window-size" ->
            IF dead THEN failed
            ELSE [h EXCEPT !.outbox = Send(@, target, "window-size", h.windows[target].size)]
       [] channel = "window-center" ->
            IF dead THEN failed
            ELSE [h EXCEPT !.windows[target].centered = TRUE]
       [] channel = "window-close" ->
            IF dead THEN failed
            ELSE [h EXCEPT !.windows[target].closeRequested = TRUE]
       [] OTHER -> h

\* windowIPCHandler(w, channel, args): a method of a destroyed handle throws,
\* which the catch-all decorator swallows.
windowIPCHandler(h, rec, channel, args) ==
  LET target == rec.window
      dead == h.windows[target].closed
      failed == [h EXCEPT !.errors = @ \cup {"windowIPCHandler"}]
  IN CASE channel = "window-resize" ->
            IF dead THEN failed
            ELSE SetSize(h, target,
                         ClampToOptions(args[1].v[1], args[2].v[1], rec.options))
       [] channel = "window-size" ->
            IF dead THEN failed
            ELSE [h EXCEPT !.outbox = Send(@, target, "window-size", h.windows[target].size)]
       [] channel = "window-center" ->
            IF dead THEN failed
            ELSE [h EXCEPT !.windows[target].centered = TRUE]
       [] OTHER -> h

\* The "ipc-message" listener of createBaseWindow: the record is looked up by
\* the captured options.name when the message arrives.
RouterListener(h, id, channel, ipcArgs) ==
  windowIPCHandler(h, WindowsList[IndexOf(WindowsList, wiring[id].options.name)],
                   channel, ipcArgs)

\* ------------------------------------------------------------ close-promise
\* The listener (e, channel, args) receives the first IPC argument as args.
FirstArg(ipcArgs) == IF Len(ipcArgs) >= 1 THEN ipcArgs[1] ELSE Undefined

\* if (args) onclose(...args); else onclose();  -- the arguments of the call
OncloseArguments(args) == IF Truthy(args) THEN args.v ELSE <<>>

\* resolve([...args] ?? null): spreading a value that is not iterable throws
\* a TypeError before resolve is called.
ResolveValue(args) ==
  IF args.t = "array" THEN Return(Nullish(Array(args.v), Null)) ELSE Throw

\* Variants of the guard of the native "close" listener: without the flag,
\* and with the flag read the wrong way round.
NativeCloseActsUnguarded(wr) == wr.options.onclose
NativeCloseActsInverted(wr) == wr.options.onclose /\ wr.closeWithIPC

\* The native "close" listener acts only when the IPC listener has not.
NativeCloseActs(wr) == wr.options.onclose /\ ~wr.closeWithIPC

\* What the two close listeners of a window work on: the calls of its
\* callback, the flag closeWithIPC, the state of its promise, whether a close
\* of the handle was requested and whether the host emitted "close", and the
\* edges that fired.
CloseState(calls, wr, p, handle, edges) ==
  [calls |-> calls, closeWithIPC |-> wr.closeWithIPC, promise |-> p,
   closeRequested |-> handle.closeRequested, closeEmitted |-> handle.closeEmitted,
   fired |-> edges, threw |-> FALSE]

\* The native "close" listener of createClosePromise, run on a "close" event
\* of the host: it calls the callback with null and resolves with null,
\* unless the IPC listener has set the flag.
NativeCloseListener(st, wr) ==
  LET emitted == [st EXCEPT !.closeEmitted = TRUE,
                            !.fired = Append(@, [edge |-> "native", args |-> Undefined])]
  IN IF NativeCloseActs([wr EXCEPT !.closeWithIPC = st.closeWithIPC])
     THEN [emitted EXCEPT !.calls = Append(@, <<Null>>),
                          !.promise = Resolve(@, Null)]
     ELSE emitted

\* A variant of the IPC close listener that requests the close before it
\* sets the flag.
IpcCloseStepsCloseFirst == <<"onclose", "close", "closeWithIPC", "resolve">>

\* The statements of the IPC close listener, in the order of the source: the
\* callback, `closeWithIPC = true`, `window.close()`, `resolve(...)`.
IpcCloseSteps == <<"onclose", "closeWithIPC", "close", "resolve">>

\* One statement of the IPC close listener; none runs after an exception.
\* window.close() asks the host to close the handle; the host may emit
\* "close" before the call returns (sync), which runs the native listener in
\* the middle of this one.
IpcCloseStep(step, st, wr, args, sync) ==
  IF st.threw THEN st
  ELSE CASE step = "onclose" -> [st EXCEPT !.calls = Append(@, OncloseArguments(args))]
         [] step = "closeWithIPC" -> [st EXCEPT !.closeWithIPC = TRUE]
         [] step = "close" ->
              IF sync THEN NativeCloseListener([st EXCEPT !.closeRequested = TRUE], wr)
              ELSE [st EXCEPT !.closeRequested = TRUE]
         [] step = "resolve" ->
              LET value == ResolveValue(args)
              IN IF value.threw THEN [st EXCEPT !.threw = TRUE]
                 ELSE [st EXCEPT !.promise = Resolve(@, value.ret)]

\* The four statements of the listener, run in order.
IpcCloseListener(steps, st, wr, args, sync) ==
  LET s1 == IpcCloseStep(steps[1], st, wr, args, sync)
      s2 == IpcCloseStep(steps[2], s1, wr, args, sync)
      s3 == IpcCloseStep(steps[3], s2, wr, args, sync)
  IN IpcCloseStep(steps[4], s3, wr, args, sync)

\* A message of the content of window id: both "ipc-message" listeners run, in
\* the order they were registered (the router, then the close-promise's).
ipcMessageListeners(id, channel, ipcArgs, sync) ==
  /\ id \in Ids
  /\ wiring[id].managed
  /\ ~windows[id].closed
  /\ nEvents < MaxEvents
  /\ nEvents' = nEvents + 1
  /\ LET h == RouterListener(Host(windows, outbox, errors), id, channel, ipcArgs)
         closes == promise[id].state # "none" /\ channel = "window-close"
         args == FirstArg(ipcArgs)
         before == CloseState(oncloseCalls[id], wiring[id], promise[id], h.windows[id],
                              Append(fired[id], [edge |-> "ipc", args |-> args]))
     IN /\ outbox' = h.outbox
        /\ errors' = h.errors
        /\ IF closes
           THEN \E st \in {IpcCloseListener(IpcCloseSteps, before, wiring[id], args, sync)} :
                   /\ oncloseCalls' = [oncloseCalls EXCEPT ![id] = st.calls]
                   /\ wiring' = [wiring EXCEPT ![id].closeWithIPC = st.closeWithIPC]
                   /\ windows' = [h.windows EXCEPT
                                    ![id].closeRequested = st.closeRequested,
                                    ![id].closeEmitted = st.closeEmitted]
                   /\ promise' = [promise EXCEPT ![id] = st.promise]
                   /\ uncaught' = IF st.threw THEN uncaught \cup {id} ELSE uncaught
                   /\ fired' = [fired EXCEPT ![id] = st.fired]
           ELSE /\ windows' = h.windows
                /\ UNCHANGED <<oncloseCalls, wiring, promise, uncaught, fired>>
  /\ UNCHANGED <<result, store, isDev, services>>

\* A variant of the router whose resize handler also stores the new size in
\* the options of the sender's record.
ipcMessageSavingSize(id, channel, ipcArgs) ==
  /\ ipcMessageListeners(id, channel, ipcArgs, FALSE)
  /\ WindowsList' = [i \in 1..Len(WindowsList) |->
                       IF WindowsList[i].window = id
                       THEN [WindowsList[i] EXCEPT !.options.size = windows'[id].size]
                       ELSE WindowsList[i]]

\* The content of window id sends an IPC message: both "ipc-message" listeners
\* run, and neither assigns to the registry or to a record's options. A close
\* the listener requests is emitted by the host later, as an event of its own.
ipcMessage(id, channel, ipcArgs) ==
  /\ ipcMessageListeners(id, channel, ipcArgs, FALSE)
  /\ UNCHANGED WindowsList

\* The content of window id sends window-close on a host that emits "close"
\* before window.close() returns.
ipcMessageCloseSync(id, ipcArgs) ==
  /\ promise[id].state # "none"
  /\ ipcMessageListeners(id, "window-close", ipcArgs, TRUE)
  /\ UNCHANGED WindowsList

\* The host emits "close" on window id (the user's close button, or a close
\* that window.close() requested).
nativeClose(id) ==
  /\ id \in Ids
  /\ ~windows[id].closed
  /\ nEvents < MaxEvents
  /\ nEvents' = nEvents + 1
  /\ windows' = [windows EXCEPT ![id].closeEmitted = TRUE]
  /\ IF promise[id].state # "none"
     THEN \E st \in {NativeCloseListener(
                         CloseState(oncloseCalls[id], wiring[id], promise[id],
                                    windows[id], fired[id]), wiring[id])} :
             /\ fired' = [fired EXCEPT ![id] = st.fired]
             /\ oncloseCalls' = [oncloseCalls EXCEPT ![id] = st.calls]
             /\ promise' = [promise EXCEPT ![id] = st.promise]
     ELSE UNCHANGED <<fired, oncloseCalls, promise>>
  /\ UNCHANGED <<WindowsList, wiring, outbox, errors, uncaught, result, store, isDev, services>>

\* A variant of the resize listener that reports the size the window was
\* created with instead of asking the handle.
ResizeListenerCreationSize(ob, id, ws) ==
  Send(ob, id, "window-resized", wiring[id].options.size)

\* The resize listener of createBaseWindow: it reads w.getSize() and sends it
\* to the content of the same window as window-resized.
ResizeListener(ob, id, ws) ==
  Send(ob, id, "window-resized", ws[id].size)

\* The user drags the border of window id to another size: the host resizes
\* the handle and will emit "resize".
userResize(id, size) ==
  /\ id \in Ids
  /\ ~windows[id].closed
  /\ size # windows[id].size
  /\ nEvents < MaxEvents
  /\ nEvents' = nEvents + 1
  /\ windows' = [windows EXCEPT ![id].size = size, ![id].resizePending = TRUE]
  /\ UNCHANGED <<WindowsList, wiring, promise, oncloseCalls, outbox, fired,
                 errors, uncaught, result, store, isDev, services>>

\* The host emits "resize" on window id after its size changed; the listener
\* of createBaseWindow sends w.getSize() to the content as window-resized.
resize(id) ==
  /\ id \in Ids
  /\ windows[id].resizePending
  /\ ~windows[id].closed
  /\ windows' = [windows EXCEPT ![id].resizePending = FALSE]
  /\ outbox' = IF wiring[id].managed
               THEN ResizeListener(outbox, id, windows)
               ELSE outbox
  /\ UNCHANGED <<WindowsList, wiring, promise, oncloseCalls, fired, errors,
                 uncaught, result, store, isDev, services, nEvents>>

\* A variant of the dom-ready listener registered with `on` instead of
\* `once`: it answers every signal.
DomReadyListenerEvery(ob, id, wr) ==
  IF Truthy(wr.options.args)
  THEN Send(ob, id, "window-arguments", wr.options.args)
  ELSE ob

\* The dom-ready listener of createBaseWindow, registered with `once`: while
\* it is still registered it sends options.args, if there are any, to the
\* content on window-arguments.
DomReadyListener(ob, id, wr) ==
  IF wr.domReadyOnce /\ Truthy(wr.options.args)
  THEN Send(ob, id, "window-arguments", wr.options.args)
  ELSE ob

\* The content of window id signals "dom-ready" (its first load, a reload, a
\* navigation). The one-shot listener is gone after the first signal.
domReady(id) ==
  /\ id \in Ids
  /\ ~windows[id].closed
  /\ nEvents < MaxEvents
  /\ nEvents' = nEvents + 1
  /\ windows' = [windows EXCEPT ![id].loads = @ + 1]
  /\ outbox' = DomReadyListener(outbox, id, wiring[id])
  /\ wiring' = [wiring EXCEPT ![id].domReadyOnce = FALSE]
  /\ UNCHANGED <<WindowsList, promise, oncloseCalls, fired, errors, uncaught,
                 result, store, isDev, services>>

\* The host emits "ready-to-show" on window id, once: the listener of
\* createBaseWindow shows the window.
readyToShow(id) ==
  /\ id \in Ids
  /\ ~windows[id].closed
  /\ ~windows[id].ready
  /\ windows' = [windows EXCEPT ![id].ready = TRUE,
                                ![id].show = IF wiring[id].managed THEN TRUE ELSE @]
  /\ UNCHANGED <<WindowsList, wiring, promise, oncloseCalls, outbox, fired, errors,
                 uncaught, result, store, isDev, services, nEvents>>

\* A variant in which the entry of a window leaves the registry when the
\* host destroys the window.
closedPruning(id) ==
  /\ id \in Ids
  /\ windows[id].closeEmitted
  /\ ~windows[id].closed
  /\ windows' = [windows EXCEPT ![id].closed = TRUE]
  /\ WindowsList' = SelectSeq(WindowsList, LAMBDA e : e.window # id)
  /\ UNCHANGED <<wiring, promise, oncloseCalls, outbox, fired, errors,
                 uncaught, result, store, isDev, services, nEvents>>

\* The host destroys a window whose "close" event nobody prevented.
closed(id) ==
  /\ id \in Ids
  /\ windows[id].closeEmitted
  /\ ~windows[id].closed
  /\ windows' = [windows EXCEPT ![id].closed = TRUE]
  /\ UNCHANGED <<WindowsList, wiring, promise, oncloseCalls, outbox, fired, errors,
                 uncaught, result, store, isDev, services, nEvents>>

\* ------------------------------------------------------------------ logging
\* The logging configurator.
\* TLoggerCategory: the categories a caller may ask a logger for.
TLoggerCategory == {"main", "renderer", "f95"}
\* A log4js logger of a category.
Logger(category) == [t |-> "logger", v |-> <<category>>]

\* LAYOUT: the common layout of the loggers.
LAYOUT == [type |-> "pattern", pattern |-> "[%d{yyyy/MM/dd-hh.mm.ss}] (%p - %c) %m"]

\* shared.paths.LogPath: the log file of each output.
LogPath(which) ==
  CASE which = "DEFAULT" -> "default.log"
    [] which = "MAIN" -> "main.log"
    [] which = "RENDERER" -> "renderer.log"
    [] which = "F95API" -> "f95api.log"

\* A variant of createCommonAppender that keeps its backups uncompressed.
createCommonAppenderUncompressed(filename) ==
  [type |-> "file", filename |-> filename, layout |-> LAYOUT, keepFileExt |-> TRUE,
   maxLogSize |-> 10485760, backups |-> 3, compress |-> FALSE]

\* createCommonAppender(filename): a file output that rolls over at 10 MB,
\* keeps 3 backups and compresses them.
createCommonAppender(filename) ==
  [type |-> "file", filename |-> filename, layout |-> LAYOUT, keepFileExt |-> TRUE,
   maxLogSize |-> 10485760, backups |-> 3, compress |-> TRUE]

\* The configuration object init builds: four outputs, and four categories
\* each naming one output; every category but default takes its level from
\* the mode of the process.
Configuration(dev) ==
  LET level == IF dev THEN "debug" ELSE "warn"
  IN [appenders |->
        << [name |-> "default", appender |-> createCommonAppender(LogPath("DEFAULT"))],
           [name |-> "main", appender |-> createCommonAppender(LogPath("MAIN"))],
           [name |-> "renderer", appender |-> createCommonAppender(LogPath("RENDERER"))],
           [name |-> "f95", appender |-> createCommonAppender(LogPath("F95API"))] >>,
      categories |->
        << [name |-> "default", appenders |-> <<"default">>, level |-> "debug"],
           [name |-> "main", appenders |-> <<"main">>, level |-> level],
           [name |-> "renderer", appenders |-> <<"renderer">>, level |-> level],
           [name |-> "f95", appenders |-> <<"f95">>, level |-> level] >>]

\* init(): builds the configuration, loads it with configure, and only then
\* sets initialized. When configure (or a path getter) throws, the exception
\* leaves init before the assignment.
loggerInit(ok) ==
  /\ nEvents < MaxEvents
  /\ nEvents' = nEvents + 1
  /\ IF ok
     THEN /\ configuration' = Configuration(isDev)
          /\ initialized' = TRUE
     ELSE UNCHANGED <<configuration, initialized>>
  /\ result' = [op |-> "logger.init", arg |-> Undefined, ret |-> Undefined,
                threw |-> ~ok]
  /\ UNCHANGED <<manager_windows, store, isDev, frames, desktop, userInfo, logFiles,
                 i18next, directory, bridge>>

\* A variant of get that hands out a logger without looking at the flag.
GetLoggerUnchecked(init, category) == Return(Logger(category))

\* The body of get(category): throws before initialization, otherwise
\* returns getLogger(category).
GetLogger(init, category) ==
  IF ~init THEN Throw ELSE Return(Logger(category))

\* get(category)
loggerGet(category) ==
  /\ nEvents < MaxEvents
  /\ nEvents' = nEvents + 1
  /\ result' = [op |-> "logger.get", arg |-> Str(category),
                ret |-> GetLogger(initialized, category).ret,
                threw |-> GetLogger(initialized, category).threw]
  /\ UNCHANGED <<manager_windows, store, isDev, services>>

\* The levels of log4js the application uses, in order of severity.
LevelNo(level) ==
  CASE level = "debug" -> 1
    [] level = "warn" -> 2
    [] level = "error" -> 3

\* The entries of a configured list (appenders, categories) with a name.
Named(list, name) == SelectSeq(list, LAMBDA e : e.name = name)

\* A logger obtained with get(category) logs a record at a level: the record
\* goes to the file of every output the configuration gives the category,
\* when the level reaches the level of the category.
loggerWrite(category, level) ==
  /\ initialized
  /\ nEvents < MaxEvents
  /\ nEvents' = nEvents + 1
  /\ LET cat == Named(configuration.categories, category)[1]
         files == {Named(configuration.appenders, cat.appenders[i])[1].appender.filename :
                     i \in 1..Len(cat.appenders)}
     IN logFiles' = IF LevelNo(level) >= LevelNo(cat.level)
                    THEN logFiles \cup {[filename |-> f, category |-> category,
                                         level |-> level] : f \in files}
                    ELSE logFiles
  /\ result' = [op |-> "logger.write", arg |-> Str(category), ret |-> Undefined,
                threw |-> FALSE]
  /\ UNCHANGED <<manager_windows, store, isDev, frames, desktop, userInfo,
                 initialized, configuration, i18next, directory, bridge>>

\* ------------------------------------------------------------ preload bridge
\* The preload script of a window: the surface it exposes to the content and
\* what each call hands to ipcRenderer.
\* validSendChannels: the valid render-to-main channels.
validSendChannels == <<"window-close", "credentials-path", "translate">>

\* Array.prototype.includes
Includes(list, x) == \E i \in 1..Len(list) : list[i] = x

\* ipcRenderer.send / ipcRenderer.invoke: the message leaves for the main
\* process.
Forward(b, method, channel, args) ==
  [b EXCEPT !.forwarded = Append(@, [method |-> method, channel |-> channel,
                                     args |-> args])]
\* logger.warn
Warn(b) == [b EXCEPT !.warned = @ + 1]

\* A variant of the guarded calls that forwards on any channel.
GuardedUnfiltered(b, method, channel, data) ==
  Forward(b, method, channel, <<Array(data)>>)

\* The body shared by API.send and API.invoke: the rest arguments travel as
\* one array when the channel is valid; otherwise only a warning is logged.
Guarded(b, method, channel, data) ==
  IF Includes(validSendChannels, channel)
  THEN Forward(b, method, channel, <<Array(data)>>)
  ELSE Warn(b)

\* API.send(channel, ...data)
apiSend(channel, data) ==
  /\ nEvents < MaxEvents
  /\ nEvents' = nEvents + 1
  /\ bridge' = Guarded(bridge, "send", channel, data)
  /\ result' = [op |-> "API.send", arg |-> Str(channel), ret |-> Undefined,
                threw |-> FALSE]
  /\ UNCHANGED <<manager_windows, store, isDev, frames, desktop, userInfo,
                 initialized, configuration, logFiles, i18next, directory>>

\* API.invoke(channel, ...data): the promise of ipcRenderer.invoke, or
\* undefined when the channel is not valid.
apiInvoke(channel, data) ==
  /\ nEvents < MaxEvents
  /\ nEvents' = nEvents + 1
  /\ bridge' = Guarded(bridge, "invoke", channel, data)
  /\ result' = [op |-> "API.invoke", arg |-> Str(channel),
                ret |-> IF Includes(validSendChannels, channel)
                        THEN Unsettled ELSE Undefined,
                threw |-> FALSE]
  /\ UNCHANGED <<manager_windows, store, isDev, frames, desktop, userInfo,
                 initialized, configuration, logFiles, i18next, directory>>

\* API.translate(key, interpolation): invokes on the translate channel.
apiTranslate(key) ==
  /\ nEvents < MaxEvents
  /\ nEvents' = nEvents + 1
  /\ bridge' = Forward(bridge, "invoke", "translate", <<Str(key), Undefined>>)
  /\ result' = [op |-> "API.translate", arg |-> Str(key), ret |-> Unsettled,
                threw |-> FALSE]
  /\ UNCHANGED <<manager_windows, store, isDev, frames, desktop, userInfo,
                 initialized, configuration, logFiles, i18next, directory>>

\* F95.login(username, password): invokes on the f95api channel.
f95Login(username) ==
  /\ nEvents < MaxEvents
  /\ nEvents' = nEvents + 1
  /\ bridge' = Forward(bridge, "invoke", "f95api",
                       <<Str("login"), Array(<<Str(username), Str("password")>>)>>)
  /\ result' = [op |-> "F95.login", arg |-> Str(username), ret |-> Unsettled,
                threw |-> FALSE]
  /\ UNCHANGED <<manager_windows, store, isDev, frames, desktop, userInfo,
                 initialized, configuration, logFiles, i18next, directory>>

\* -------------------------------------------------------------- localization
\* Strings the loader takes apart (file names, paths, language codes) are
\* sequences of characters.
DotJson == <<".", "j", "s", "o", "n">>
DotTxt == <<".", "t", "x", "t">>
LangEn == <<"e", "n">>
LangIt == <<"i", "t">>
LangFr == <<"f", "r">>
LangDev == <<"d", "e", "v">>
ProtoKey == <<"_", "_", "p", "r", "o", "t", "o", "_", "_">>
\* The resolved path of the resource directory.
ResourcesPath == <<"/", "l">>

\* String.prototype.endsWith
EndsWith(str, suffix) ==
  /\ Len(str) >= Len(suffix)
  /\ SubSeq(str, Len(str) - Len(suffix) + 1, Len(str)) = suffix

\* path.join(dir, filename)
PathJoin(dir, filename) == dir \o <<"/">> \o filename

\* path.basename(p, ext): the last portion of the path, without ext when the
\* portion ends in ext and is more than ext alone.
Basename(p, ext) ==
  LET slashes == {i \in 1..Len(p) : p[i] = "/"}
      last == IF slashes = {} THEN 0 ELSE CHOOSE i \in slashes : \A j \in slashes : j <= i
      base == SubSeq(p, last + 1, Len(p))
  IN IF ext = p THEN <<>>
     ELSE IF Len(ext) > 0 /\ EndsWith(base, ext) /\ base # ext
          THEN SubSeq(base, 1, Len(base) - Len(ext))
          ELSE base

\* JSON.parse of the text of a file: it throws on malformed text, otherwise
\* gives the bundle of the file (here: the translation keys it holds, and
\* the file it came from).
JSONParse(file) ==
  IF file.malformed THEN Throw
  ELSE Return([from |-> file.name, keys |-> file.keys])

\* `resources[key] = resource` on an object literal: an entry of its own,
\* replacing one of the same key; the key __proto__ is the prototype accessor
\* and creates no entry.
Assign(resources, key, resource) ==
  LET e == [key |-> key, resource |-> resource]
      at == {i \in 1..Len(resources) : resources[i].key = key}
  IN IF key = ProtoKey THEN resources
     ELSE IF at = {} THEN Append(resources, e)
     ELSE [i \in 1..Len(resources) |-> IF i \in at THEN e ELSE resources[i]]

\* The entries of `parsed`, assigned in order.
RECURSIVE AssignAll(_, _)
AssignAll(resources, parsed) ==
  IF Len(parsed) = 0 THEN resources
  ELSE AssignAll(Assign(resources, parsed[1].key, parsed[1].resource), Tail(parsed))

\* The entries of the directory the loader reads: regular files whose name
\* ends in .json.
TranslationFiles(dir) ==
  SelectSeq(dir, LAMBDA dirent : dirent.isFile /\ EndsWith(dirent.name, DotJson))

\* A variant of the loader that leaves out the files that do not parse.
GetTranslationResourcesFromDirLenient(dir) ==
  LET files == SelectSeq(TranslationFiles(dir), LAMBDA f : ~f.malformed)
      parsed == [i \in 1..Len(files) |->
                   [key |-> Basename(PathJoin(ResourcesPath, files[i].name), DotJson),
                    resource |-> JSONParse(files[i]).ret]]
  IN Return(AssignAll(<<>>, parsed))

\* getTranslationResourcesFromDir(dirname): every file is read and parsed;
\* Promise.all rejects when one of them fails, otherwise the bundles are
\* assigned to the table under the base name of their path.
GetTranslationResourcesFromDir(dir) ==
  LET files == TranslationFiles(dir)
      parsed == [i \in 1..Len(files) |->
                   [key |-> Basename(PathJoin(ResourcesPath, files[i].name), DotJson),
                    resource |-> JSONParse(files[i]).ret]]
  IN IF \E i \in 1..Len(files) : JSONParse(files[i]).threw
     THEN Throw
     ELSE Return(AssignAll(<<>>, parsed))

\* i18next.init({resources, fallbackLng}) with the language detector: the
\* engine starts over with the table and the language the detector reports.
I18nextInit(res, dev, detected) ==
  [isInitialized |-> TRUE, resources |-> res, language |-> detected,
   fallbackLng |-> IF dev THEN LangDev ELSE LangEn]

\* i18next.changeLanguage(lang)
I18nextChangeLanguage(engine, lang) == [engine EXCEPT !.language = lang]

\* Whether the table has the key in the bundle of a language.
HasTranslation(engine, lang, key) ==
  \E i \in 1..Len(engine.resources) :
    engine.resources[i].key = lang /\ key \in engine.resources[i].resource.keys

\* A text: the translation of a key in a language, or (no language) the key
\* itself.
Text(lang, key) == [t |-> "text", v |-> <<lang, key>>]

\* A variant of i18next.t that looks in the fallback language only.
I18nextTFallbackOnly(engine, key) ==
  IF HasTranslation(engine, engine.fallbackLng, key) THEN Text(engine.fallbackLng, key)
  ELSE Text(<<>>, key)

\* i18next.t(key): the text of the active language, else that of the
\* fallback language, else the key.
I18nextT(engine, key) ==
  IF HasTranslation(engine, engine.language, key) THEN Text(engine.language, key)
  ELSE IF HasTranslation(engine, engine.fallbackLng, key) THEN Text(engine.fallbackLng, key)
  ELSE Text(<<>>, key)

\* initLocalization(resourcesPath, language): a failure of the scan rejects
\* the call before the engine is touched; otherwise the engine is
\* initialized and, when a language is given, switched to it. The engine is
\* to be initialized once: the application calls this until it succeeded.
initLocalization(language, detected) ==
  /\ ~i18next.isInitialized
  /\ nEvents < MaxEvents
  /\ nEvents' = nEvents + 1
  /\ LET res == GetTranslationResourcesFromDir(directory)
         engine == I18nextInit(res.ret, isDev, detected)
     IN /\ i18next' = IF res.threw THEN i18next
                       ELSE IF Len(language) > 0
                            THEN I18nextChangeLanguage(engine, language)
                            ELSE engine
        /\ result' = [op |-> "initLocalization", arg |-> Array(language),
                      ret |-> Undefined, threw |-> res.threw]
  /\ UNCHANGED <<manager_windows, store, isDev, frames, desktop, userInfo,
                 initialized, configuration, logFiles, directory, bridge>>

\* changeLanguage(lang)
changeLanguage(lang) ==
  /\ i18next.isInitialized
  /\ nEvents < MaxEvents
  /\ nEvents' = nEvents + 1
  /\ i18next' = I18nextChangeLanguage(i18next, lang)
  /\ result' = [op |-> "changeLanguage", arg |-> Array(lang), ret |-> Undefined,
                threw |-> FALSE]
  /\ UNCHANGED <<manager_windows, store, isDev, frames, desktop, userInfo,
                 initialized, configuration, logFiles, directory, bridge>>

\* getTranslation(key)
getTranslation(key) ==
  /\ i18next.isInitialized
  /\ nEvents < MaxEvents
  /\ nEvents' = nEvents + 1
  /\ result' = [op |-> "getTranslation", arg |-> Str(key),
                ret |-> I18nextT(i18next, key), threw |-> FALSE]
  /\ UNCHANGED <<manager_windows, store, isDev, services>>

\* getCurrentLanguage()
getCurrentLanguage ==
  /\ i18next.isInitialized
  /\ nEvents < MaxEvents
  /\ nEvents' = nEvents + 1
  /\ result' = [op |-> "getCurrentLanguage", arg |-> Undefined,
                ret |-> Array(i18next.language), threw |-> FALSE]
  /\ UNCHANGED <<manager_windows, store, isDev, services>>

\* ------------------------------------------------------ user-info component
\* The custom element of the renderer that shows the logged-in user.
\* window.F95.UserData, the class the preload script exposes.
F95UserData == [t |-> "class", v |-> <<"UserData">>]

\* The three columns of the element's template.
Columns == {"col-spinner", "col-username", "col-login"}
\* style.display of each column; before the template is attached there is
\* no column to show.
NoColumns == [c \in Columns |-> "absent"]
\* The columns as a template may give them: each hidden by its inline style
\* or left to the style sheet. The template is read from a file at run time.
Templates == [Columns -> {"", "none"}]
\* A column is displayed unless its style says none (or it does not exist).
Displayed(display) == {c \in Columns : display[c] \notin {"none", "absent"}}

\* The displays after one of the methods has set all three of them.
Only(column) == [c \in Columns |-> IF c = column THEN "inline-block" ELSE "none"]

\* val.key of a JavaScript value: undefined unless val is an object that has
\* the property.
Property(val, key) ==
  IF val.t = "object" /\ \E i \in DOMAIN val.v : val.v[i][1] = key
  THEN val.v[CHOOSE i \in DOMAIN val.v : val.v[i][1] = key][2]
  ELSE Undefined

\* this.querySelector(...) on an element without the template gives null,
\* and the access to the style or attribute of null throws.
QuerySelectorThrows(u, call) == [u EXCEPT !.call = call, !.threw = TRUE]

\* showSpinner()
ShowSpinner(u) ==
  IF ~u.connected THEN QuerySelectorThrows(u, <<"showSpinner">>)
  ELSE [u EXCEPT !.display = Only("col-spinner"),
                 !.call = <<"showSpinner">>, !.threw = FALSE]

\* A variant of hideSpinner that hides the spinner and shows the login
\* column, and leaves the username column as it is.
HideSpinnerKeepingUsername(u) ==
  IF ~u.connected THEN QuerySelectorThrows(u, <<"hideSpinner">>)
  ELSE [u EXCEPT !.display = [@ EXCEPT !["col-spinner"] = "none",
                                        !["col-login"] = "inline-block"],
                 !.call = <<"hideSpinner">>, !.threw = FALSE]

\* hideSpinner()
HideSpinner(u) ==
  IF ~u.connected THEN QuerySelectorThrows(u, <<"hideSpinner">>)
  ELSE [u EXCEPT !.display = Only("col-login"),
                 !.call = <<"hideSpinner">>, !.threw = FALSE]

\* set userdata(val): a falsy value returns at once; otherwise the value is
\* stored, then the avatar (if the value has one), the name and the columns
\* are updated.
SetUserdata(u, val) ==
  IF ~Truthy(val) THEN [u EXCEPT !.call = <<"userdata", val>>, !.threw = FALSE]
  ELSE LET stored == [u EXCEPT !._userdata = val]
       IN IF ~u.connected THEN QuerySelectorThrows(stored, <<"userdata", val>>)
          ELSE [stored EXCEPT
                  !.avatar = IF Truthy(Property(val, "avatarSrc"))
                             THEN Property(val, "avatarSrc") ELSE @,
                  !.username = Property(val, "username"),
                  !.display = Only("col-username"),
                  !.call = <<"userdata", val>>, !.threw = FALSE]

\* login(): shows the spinner, then raises the "login" event.
Login(u) ==
  LET shown == ShowSpinner(u)
  IN IF shown.threw THEN [shown EXCEPT !.call = <<"login">>]
     ELSE [shown EXCEPT !.dispatched = @ + 1, !.call = <<"login">>]

\* What the window manager and the other components keep while the
\* element works.
besides_userInfo == <<manager, initialized, configuration, logFiles, i18next,
                      directory, bridge, frames, desktop>>

\* connectedCallback(): prepareDOM appends the template to the element.
connectedCallback(template) ==
  /\ ~userInfo.connected
  /\ userInfo' = [userInfo EXCEPT !.connected = TRUE, !.display = template,
                                  !.call = <<"connectedCallback">>, !.threw = FALSE]
  /\ UNCHANGED besides_userInfo

showSpinner ==
  /\ userInfo' = ShowSpinner(userInfo)
  /\ UNCHANGED besides_userInfo

hideSpinner ==
  /\ userInfo' = HideSpinner(userInfo)
  /\ UNCHANGED besides_userInfo

userdata(val) ==
  /\ userInfo' = SetUserdata(userInfo, val)
  /\ UNCHANGED besides_userInfo

login ==
  /\ userInfo.dispatched < MaxEvents
  /\ userInfo' = Login(userInfo)
  /\ UNCHANGED besides_userInfo

NoCall == [op |-> "none", arg |-> Undefined, ret |-> Undefined, threw |-> FALSE]

\* The logging configuration before init: nothing configured.
NoConfiguration == [appenders |-> <<>>, categories |-> <<>>]
\* The translation engine before init: no resources, no language.
NoI18next == [isInitialized |-> FALSE, resources |-> <<>>, language |-> <<>>,
              fallbackLng |-> <<>>]
\* The bridge of a content that has called nothing yet.
NoBridge == [forwarded |-> <<>>, warned |-> 0]
\* The desktop before the manager asked anything of it: no URL handed to the
\* default browser, none written to the clipboard.
NoDesktop == [openExternal |-> <<>>, writeText |-> <<>>]
\* The user-info element as constructed (`this._userdata =
\* window.F95.UserData`), before it is attached to a document: it has no
\* columns yet.
NoUserInfo ==
  [connected |-> FALSE, _userdata |-> F95UserData, display |-> NoColumns,
   avatar |-> Undefined, username |-> Undefined, dispatched |-> 0,
   call |-> <<"constructor">>, threw |-> FALSE]

\* The manager as constructed, in a process started with the settings st, in
\* development mode or not, and with the resource directory dir on disk.
BootWith(st, dev, dir) ==
  /\ WindowsList = <<>>
  /\ windows = <<>>
  /\ wiring = <<>>
  /\ promise = <<>>
  /\ oncloseCalls = <<>>
  /\ outbox = <<>>
  /\ fired = <<>>
  /\ errors = {}
  /\ uncaught = {}
  /\ result = NoCall
  /\ store = st
  /\ isDev = dev
  /\ nEvents = 0
  /\ initialized = FALSE
  /\ configuration = NoConfiguration
  /\ logFiles = {}
  /\ i18next = NoI18next
  /\ bridge = NoBridge
  /\ directory = dir
  /\ frames = <<>>
  /\ desktop = NoDesktop
  /\ userInfo = NoUserInfo

\* The same with an empty resource directory.
Boot(st, dev) == BootWith(st, dev, <<>>)

\* A packaged build started with no settings saved yet.
Init == Boot(EmptyStore, FALSE)

\* ------------------------------------------------------------ specifications
\* window-close messages: no argument at all, or one argument array.
CloseArgs == {<<>>} \cup {<<Array(xs)>> : xs \in SeqsUpTo(Atoms, MaxArgs)}

\* Life cycle of the close-promise: windows with and without a close
\* callback, their window-close messages and native close events.
LifeConfigs ==
  [name : {"main"}, size : {Size(1, 1)}, minSize : {NoSize},
   maxSize : {NoSize}, onclose : BOOLEAN, args : {Undefined}]

Next ==
  \/ \E o \in LifeConfigs : createBaseWindow(o)
  \/ \E id \in Ids, a \in CloseArgs : ipcMessage(id, "window-close", a)
  \/ \E id \in Ids : nativeClose(id)
  \/ \E id \in Ids : closed(id)

Spec == Init /\ [][Next]_vars

\* The registry and its lookups: windows under any name, windows of other
\* code, and get / getName in every state.
RegistryConfigs ==
  [name : Names, size : {Size(1, 1)}, minSize : {NoSize},
   maxSize : {NoSize}, onclose : {FALSE}, args : {Undefined}]

NextRegistry ==
  \/ \E o \in RegistryConfigs : createBaseWindow(o)
  \/ \E s \in {Size(1, 1)} : foreignWindow(s)
  \/ \E n \in Names : get(Str(n))
  \/ \E i \in 1..MaxWindows + 1 : get(Num(i))
  \/ \E id \in Ids : getName(id)
  \/ \E id \in Ids : nativeClose(id)
  \/ \E id \in Ids : closed(id)

SpecRegistry == Init /\ [][NextRegistry]_vars

\* Geometry: one window of any size and bounds, and its resize commands.
OptSizes == Sizes \cup {NoSize}
GeometryConfigs ==
  [name : {"main"}, size : Sizes, minSize : OptSizes, maxSize : OptSizes,
   onclose : {FALSE}, args : {Undefined}]
ResizeArgs == {<<Num(w), Num(h)>> : w \in 0..MaxDim + 1, h \in 0..MaxDim + 1}

NextGeometry ==
  \/ Len(windows) = 0 /\ \E o \in GeometryConfigs : createBaseWindow(o)
  \/ \E id \in Ids, a \in ResizeArgs : ipcMessage(id, "window-resize", a)
  \/ \E n \in {"main"} : get(Str(n))

SpecGeometry == Init /\ [][NextGeometry]_vars

\* Resize commands alone: one window with any bounds, and the window-resize
\* messages of its content.
ResizeConfigs ==
  [name : {"main"}, size : {Size(1, 1)}, minSize : OptSizes, maxSize : OptSizes,
   onclose : {FALSE}, args : {Undefined}]

NextResize ==
  \/ Len(windows) = 0 /\ \E o \in ResizeConfigs : createBaseWindow(o)
  \/ \E id \in Ids, a \in ResizeArgs : ipcMessage(id, "window-resize", a)

SpecResize == Init /\ [][NextResize]_vars

\* The two close edges of one window with a close callback, on a host that
\* emits "close" inside window.close() or later.
CloseConfigs ==
  [name : {"main"}, size : {Size(1, 1)}, minSize : {NoSize},
   maxSize : {NoSize}, onclose : {TRUE}, args : {Undefined}]

NextClose ==
  \/ Len(windows) = 0 /\ \E o \in CloseConfigs : createBaseWindow(o)
  \/ \E id \in Ids, a \in CloseArgs : ipcMessage(id, "window-close", a)
  \/ \E id \in Ids, a \in CloseArgs : ipcMessageCloseSync(id, a)
  \/ \E id \in Ids : nativeClose(id)
  \/ \E id \in Ids : closed(id)

SpecClose == Init /\ [][NextClose]_vars

\* An armed close-promise among the other events of a window: windows with a
\* close callback, their router commands, window-close messages and native
\* close events, and the content and host events that are no trigger edge.
ArmedConfigs ==
  [name : {"main"}, size : {Size(1, 1)}, minSize : {NoSize},
   maxSize : {NoSize}, onclose : {TRUE}, args : {Undefined}]

ArmedMessages ==
  {[channel |-> "window-resize", args |-> <<Num(MaxDim), Num(MaxDim)>>],
   [channel |-> "window-size", args |-> <<>>],
   [channel |-> "window-close", args |-> <<>>],
   [channel |-> "window-close", args |-> <<Array(<<>>)>>]}

NextArmed ==
  \/ \E o \in ArmedConfigs : createBaseWindow(o)
  \/ \E id \in Ids, m \in ArmedMessages : ipcMessage(id, m.channel, m.args)
  \/ \E id \in Ids : nativeClose(id)
  \/ \E id \in Ids : closed(id)
  \/ \E id \in Ids : resize(id)
  \/ \E id \in Ids : domReady(id)
  \/ \E id \in Ids : readyToShow(id)

SpecArmed == Init /\ [][NextArmed]_vars

\* The reserved channel: windows with and without a close callback, the
\* window-close messages of their content, and their native close events.
ReservedMessages ==
  { [channel |-> "window-close", args |-> <<>>],
    [channel |-> "window-close", args |-> <<Array(<<>>)>>] }

NextReserved ==
  \/ \E o \in LifeConfigs : createBaseWindow(o)
  \/ \E id \in Ids, m \in ReservedMessages : ipcMessage(id, m.channel, m.args)
  \/ \E id \in Ids : nativeClose(id)
  \/ \E id \in Ids : closed(id)

SpecReserved == Init /\ [][NextReserved]_vars

\* Links of the main window: main windows without a close callback, the
\* requests of their content for a new window, and the user's choice for
\* links changing while they run.
Urls == {"https://f95zone.to/", "https://example.org/"}
LinkChoices == {Undefined, Bool(TRUE), Bool(FALSE)}

NextOpen ==
  \/ createMainWindow(FALSE, TRUE)
  \/ \E id \in Ids : loadEnd(id, TRUE)
  \/ \E id \in Ids, url \in Urls : windowOpen(id, url)
  \/ \E value \in LinkChoices : storeSet(value)

SpecOpen == Init /\ [][NextOpen]_vars

\* The user-info element: attached with any template, its methods called in
\* any order, and user data of every kind assigned to it.
UserdataValues ==
  {Undefined, Null, Str(""), Num(0),
   Object(<< <<"username", Str("user")>> >>),
   Object(<< <<"username", Str("user")>>, <<"avatarSrc", Str("avatar.png")>> >>),
   Object(<< <<"username", Str("other")>>, <<"avatarSrc", Str("")>> >>)}

NextUserInfo ==
  \/ \E template \in Templates : connectedCallback(template)
  \/ showSpinner
  \/ hideSpinner
  \/ login
  \/ \E val \in UserdataValues : userdata(val)

SpecUserInfo == Init /\ [][NextUserInfo]_vars

\* Native resizes: one window, resized by window-resize commands and by the
\* user, and the "resize" events the host emits for them.
ResizedConfigs ==
  [name : {"main"}, size : {Size(1, 1)}, minSize : {NoSize, Size(MaxDim, MaxDim)},
   maxSize : {NoSize}, onclose : {FALSE}, args : {Undefined}]

ResizedArgs == {<<Num(w), Num(h)>> : w \in {1, MaxDim + 1}, h \in {1, MaxDim}}

NextResized ==
  \/ Len(windows) = 0 /\ \E o \in ResizedConfigs : createBaseWindow(o)
  \/ \E id \in Ids, a \in ResizedArgs : ipcMessage(id, "window-resize", a)
  \/ \E id \in Ids, size \in Sizes : userResize(id, size)
  \/ \E id \in Ids : resize(id)

SpecResized == Init /\ [][NextResized]_vars

\* The command router: up to MaxWindows windows, under one name or two, with
\* or without a minSize, and the messages of their contents on the three
\* command channels and on other channels.
RouterConfigs ==
  [name : {"main", "login"}, size : {Size(1, 1)},
   minSize : {NoSize, Size(MaxDim, MaxDim)}, maxSize : {NoSize},
   onclose : {FALSE}, args : {Undefined}]

RouterChannels == {"window-resize", "window-size", "window-center"}
\* Channels the content sends on that are not commands of the router.
OtherChannels == {"window-close", "translate"}

RouterMessages ==
  {[channel |-> "window-resize", args |-> <<Num(w), Num(h)>>] :
     w \in {1, MaxDim + 1}, h \in {1}}
  \cup {[channel |-> c, args |-> <<>>] : c \in {"window-size", "window-center"}}
  \cup {[channel |-> c, args |-> <<Array(<<>>)>>] : c \in OtherChannels}

NextRouter ==
  \/ \E o \in RouterConfigs : createBaseWindow(o)
  \/ \E id \in Ids, m \in RouterMessages : ipcMessage(id, m.channel, m.args)

SpecRouter == Init /\ [][NextRouter]_vars

\* The content side of a window: windows created with and without creation
\* arguments, the dom-ready signals of their contents and the host's
\* ready-to-show events.
ContentConfigs ==
  [name : {"main", "login"}, size : {Size(1, 1)}, minSize : {NoSize},
   maxSize : {NoSize}, onclose : {FALSE},
   args : {Undefined, Object(<< <<"type", Str("info")>> >>)}]

NextContent ==
  \/ \E o \in ContentConfigs : createBaseWindow(o)
  \/ \E id \in Ids : domReady(id)
  \/ \E id \in Ids : readyToShow(id)

SpecContent == Init /\ [][NextContent]_vars

\* The main window: a process started with any of the settings files, in
\* development mode or not; calls of createMainWindow whose window the host
\* constructs or fails to construct; the end of its page load and the host's
\* ready-to-show events.
InitMain == \E st \in Stores, dev \in BOOLEAN : Boot(st, dev)

NextMain ==
  \/ \E onclose \in BOOLEAN, constructs \in BOOLEAN : createMainWindow(onclose, constructs)
  \/ \E id \in Ids, ok \in BOOLEAN : loadEnd(id, ok)
  \/ \E id \in Ids : readyToShow(id)

SpecMain == InitMain /\ [][NextMain]_vars

\* The logging configurator in a process of either mode: init (which may
\* fail), requests for loggers, and records logged through them.
InitLogger == \E dev \in BOOLEAN : Boot(EmptyStore, dev)

LoggerLevels == {"debug", "error"}

NextLogger ==
  \/ \E ok \in BOOLEAN : loggerInit(ok)
  \/ \E c \in TLoggerCategory : loggerGet(c)
  \/ \E c \in TLoggerCategory, l \in LoggerLevels : loggerWrite(c, l)

SpecLogger == InitLogger /\ [][NextLogger]_vars

\* The localization loader over a resource directory. The directory holds
\* some of: en.json, it.json (well-formed or malformed), a subdirectory
\* fr.json, a file notes.txt, a file named just .json, a file __proto__.json.
File(name, keys) == [name |-> name, isFile |-> TRUE, malformed |-> FALSE, keys |-> keys]

DirentPool ==
  << {File(LangEn \o DotJson, {"hello", "bye"})},
     {File(LangIt \o DotJson, {"hello"}),
      [File(LangIt \o DotJson, {}) EXCEPT !.malformed = TRUE]},
     {[File(LangFr \o DotJson, {}) EXCEPT !.isFile = FALSE]},
     {File(<<"n">> \o DotTxt, {})},
     {File(DotJson, {"hello"})},
     {File(ProtoKey \o DotJson, {"hello"})} >>

\* The directories with at most one entry of each slot of the pool, in the
\* order of the pool.
RECURSIVE DirectoriesFrom(_)
DirectoriesFrom(k) ==
  IF k > Len(DirentPool) THEN {<<>>}
  ELSE LET rest == DirectoriesFrom(k + 1)
       IN rest \cup {<<d>> \o r : d \in DirentPool[k], r \in rest}

Directories == DirectoriesFrom(1)

InitLocalization == \E dev \in BOOLEAN, dir \in Directories : BootWith(EmptyStore, dev, dir)

Languages == {LangEn, LangIt}
TranslationKeys == {"hello", "bye"}

NextLocalization ==
  \/ \E language \in Languages \cup {<<>>}, detected \in Languages :
       initLocalization(language, detected)
  \/ \E lang \in Languages : changeLanguage(lang)
  \/ \E key \in TranslationKeys : getTranslation(key)
  \/ getCurrentLanguage

SpecLocalization == InitLocalization /\ [][NextLocalization]_vars

\* The content of one window calling the surface its preload script exposes.
\* The channels it may name: the valid ones, a router command, the channel
\* of the F95 interface.
BridgeChannels == {"window-close", "credentials-path", "translate",
                   "window-resize", "f95api"}
BridgeData == {<<>>, <<Str("a")>>}

NextBridge ==
  \/ \E c \in BridgeChannels, d \in BridgeData : apiSend(c, d)
  \/ \E c \in BridgeChannels, d \in BridgeData : apiInvoke(c, d)
  \/ \E k \in {"key"} : apiTranslate(k)
  \/ \E u \in {"user"} : f95Login(u)

SpecBridge == Init /\ [][NextBridge]_vars

\* ------------------------------------------------------------ close-promise
HasPromise(id) == promise[id].state # "none"
Fulfilled(value) == [state |-> "fulfilled", value |-> value]
IpcEdge(args) == [edge |-> "ipc", args |-> args]
NativeEdge == [edge |-> "native", args |-> Undefined]

\* C1: for a window created with a close callback, whatever window-close
\* messages and native close events its listeners have handled, in whatever
\* order, the close callback has been invoked exactly once.
C1_CallbackExactlyOnce ==
  \A id \in Ids :
    HasPromise(id) /\ fired[id] # <<>> => Len(oncloseCalls[id]) = 1

\* C2: after a window-close message carrying a non-empty argument array,
\* followed only by native close events, the callback has been invoked once,
\* with the elements of the array, and the promise is fulfilled with the
\* array: the native close listener did nothing.
C2_IpcThenNative ==
  \A id \in Ids :
    ( /\ HasPromise(id)
      /\ Len(fired[id]) >= 2
      /\ fired[id][1].edge = "ipc"
      /\ fired[id][1].args.t = "array"
      /\ Len(fired[id][1].args.v) > 0
      /\ \A k \in 2..Len(fired[id]) : fired[id][k].edge = "native" )
    => /\ oncloseCalls[id] = <<fired[id][1].args.v>>
       /\ promise[id] = Fulfilled(Array(fired[id][1].args.v))

\* C2 witness: window-close with ["saved"], then the native close event.
C2_Witness ==
  \E id \in Ids :
    /\ fired[id] = <<IpcEdge(Array(<<Str("saved")>>)), NativeEdge>>
    /\ oncloseCalls[id] = << <<Str("saved")>> >>
    /\ promise[id] = Fulfilled(Array(<<Str("saved")>>))

\* C3: when only native close events have fired on a window (no window-close
\* message was handled before), the callback has been invoked, each time
\* with the single argument null, and the promise is fulfilled with null.
C3_NativeCloseGivesNull ==
  \A id \in Ids :
    ( /\ HasPromise(id)
      /\ fired[id] # <<>>
      /\ \A k \in 1..Len(fired[id]) : fired[id][k].edge = "native" )
    => /\ oncloseCalls[id] # <<>>
       /\ \A k \in 1..Len(oncloseCalls[id]) : oncloseCalls[id][k] = <<Null>>
       /\ promise[id] = Fulfilled(Null)

\* C3 witness: the native close event fired first on a window with a callback.
C3_Witness ==
  \E id \in Ids :
    /\ fired[id] = <<NativeEdge>>
    /\ oncloseCalls[id] = << <<Null>> >>
    /\ promise[id] = Fulfilled(Null)

\* C4: once a trigger edge has fired on a window with a close-promise (a
\* window-close message with or without a payload, or the native close
\* event), the promise is fulfilled.
C4_EveryEdgeFulfills ==
  \A id \in Ids :
    HasPromise(id) /\ fired[id] # <<>> => promise[id].state = "fulfilled"

\* C5: when the first edge is a window-close message, the promise is
\* fulfilled with the argument array if it has at least one element, and
\* with null if the array is empty or no argument was given.
C5_IpcResolution ==
  \A id \in Ids :
    HasPromise(id) /\ fired[id] # <<>> /\ fired[id][1].edge = "ipc"
    => promise[id] =
         Fulfilled(IF fired[id][1].args.t = "array" /\ Len(fired[id][1].args.v) > 0
                   THEN fired[id][1].args
                   ELSE Null)

\* C6: a fulfilled close-promise holds the value of the first edge that fired
\* (the argument array of a window-close message, null for the native close
\* event), whatever edges fired later.
C6_FirstEdgeDecides ==
  \A id \in Ids :
    promise[id].state = "fulfilled"
    => /\ fired[id] # <<>>
       /\ promise[id].value =
            (IF fired[id][1].edge = "native" THEN Null ELSE fired[id][1].args)

\* ------------------------------------------------------------------ registry
\* C7: in every registry state, get with a name that is not registered, or
\* with a numeric id that no registered handle has, returns null and does
\* not throw.
C7_GetUnknownReturnsNull ==
  [][/\ \A n \in Names :
          get(Str(n)) /\ n \notin RegisteredNames(WindowsList)
          => result'.ret = Null /\ ~result'.threw
     /\ \A i \in 1..MaxWindows + 1 :
          get(Num(i)) /\ i \notin RegisteredIds(WindowsList)
          => result'.ret = Null /\ ~result'.threw
    ]_vars

\* The first key of the registry whose handle has the id, as a value; null
\* when no entry has it.
FirstKeyOf(list, id) ==
  IF \E i \in 1..Len(list) : list[i].window = id
  THEN Str(list[CHOOSE i \in 1..Len(list) :
                  /\ list[i].window = id
                  /\ \A j \in 1..i - 1 : list[j].window # id].name)
  ELSE Null

\* C8: getName returns the first registry key whose handle has the id of the
\* given handle, and null for a handle that is in no entry (a window of
\* other code).
C8_GetNameFirstKey ==
  [][\A id \in Ids :
       getName(id) => result'.ret = FirstKeyOf(WindowsList, id) /\ ~result'.threw
    ]_vars

\* ------------------------------------------------------------------ geometry
\* x moved to the nearest bound: up to lo when below it, down to hi when
\* above it; a bound of -1 is absent.
NearestBound(x, lo, hi) ==
  IF lo # -1 /\ x < lo THEN lo
  ELSE IF hi # -1 /\ x > hi THEN hi
  ELSE x

RecordOf(id) == WindowsList[IndexOf(WindowsList, wiring[id].options.name)]

\* C10: every window-resize command applies to the handle the payload
\* [width, height] moved to the nearest bound, each dimension on its own:
\* up to minSize when below it (if the record has a minSize), down to maxSize
\* when above it (if it has a maxSize). A dimension is covered when its
\* bounds form an interval (minSize not above maxSize, or one of them absent).
C10_ResizeClampsToNearestBound ==
  [][\A id \in Ids, a \in ResizeArgs :
       ipcMessage(id, "window-resize", a) =>
         LET o == RecordOf(id).options
             applied == windows'[RecordOf(id).window].size
         IN /\ (o.minSize.width <= o.maxSize.width \/ ~Present(o.maxSize))
                 => applied.width = NearestBound(a[1].v[1], o.minSize.width, o.maxSize.width)
            /\ (o.minSize.height <= o.maxSize.height \/ ~Present(o.maxSize))
                 => applied.height = NearestBound(a[2].v[1], o.minSize.height, o.maxSize.height)
    ]_vars

\* C10 witness: a window with a maxSize and no minSize after a resize command
\* whose width was above the maximum and whose height was inside it.
C10_Witness ==
  \E id \in Ids :
    LET o == wiring[id].options
    IN /\ nEvents > 0
       /\ ~Present(o.minSize)
       /\ Present(o.maxSize)
       /\ windows[id].size.width = o.maxSize.width
       /\ windows[id].size.height < o.maxSize.height
       /\ windows[id].size.height # o.size.height

NoneDestroyed == \A i \in 1..Len(WindowsList) : ~windows[WindowsList[i].window].closed

LatestOf(name) ==
  LET S == {k \in Ids : wiring[k].managed /\ wiring[k].options.name = name}
  IN CHOOSE k \in S : \A m \in S : m <= k

\* C12: creating a window under a registered name overwrites the entry: the
\* registry never has two entries of one name, and get(name) returns the
\* handle created last under that name.
C12_DuplicateOverwrites ==
  /\ \A i, j \in 1..Len(WindowsList) :
       WindowsList[i].name = WindowsList[j].name => i = j
  /\ \A id \in Ids :
       wiring[id].managed
       => Get(WindowsList, Str(wiring[id].options.name))
            = Return(Win(LatestOf(wiring[id].options.name)))

\* C12 witness: two windows created under the name "main", one entry in the
\* registry, and get("main") returning the second.
C12_Witness ==
  /\ Len(windows) = 2
  /\ \A id \in Ids : wiring[id].managed /\ wiring[id].options.name = "main"
  /\ Len(WindowsList) = 1
  /\ result = [op |-> "get", arg |-> Str("main"), ret |-> Win(2), threw |-> FALSE]

\* ------------------------------------------------------------ command router
\* The record of window id itself: its handle and the options it was
\* created with.
OwnRecord(id) == [name |-> wiring[id].options.name, window |-> id,
                  options |-> wiring[id].options]

\* C13: a window-resize, window-size or window-center message of the content
\* of window W is applied to W's own record: the step does to the handles and
\* to the outgoing messages what the command does on W's handle with W's
\* minSize/maxSize, in every registry state.
C13_RouterBoundToOwnRecord ==
  [][\A id \in Ids, m \in RouterMessages :
       m.channel \in RouterChannels /\ ipcMessage(id, m.channel, m.args)
       => LET own == windowIPCHandler(Host(windows, outbox, errors), OwnRecord(id),
                                      m.channel, m.args)
          IN /\ windows' = own.windows
             /\ outbox' = own.outbox
    ]_vars

\* The size and the position of every handle.
Geometry(ws) == [k \in 1..Len(ws) |-> <<ws[k].size, ws[k].centered>>]

\* C15: a message on a channel other than window-resize, window-size and
\* window-center is ignored by the router: no error is raised, and the sizes
\* and positions of the handles, the registry and the outgoing messages are
\* what they were.
C15_OtherChannelsIgnored ==
  [][\A id \in Ids, m \in RouterMessages :
       m.channel \notin RouterChannels /\ ipcMessage(id, m.channel, m.args)
       => /\ errors' = errors
          /\ uncaught' = uncaught
          /\ Geometry(windows') = Geometry(windows)
          /\ WindowsList' = WindowsList
          /\ outbox' = outbox
    ]_vars

\* C15 witness: the only window, created below its minSize (so that every
\* window-resize changes its size), has received messages and none of them
\* left a trace: they were on other channels.
C15_Witness ==
  /\ Len(windows) = 1
  /\ Present(wiring[1].options.minSize)
  /\ nEvents = MaxEvents
  /\ windows[1].size = wiring[1].options.size
  /\ ~windows[1].centered
  /\ outbox[1] = <<>>
  /\ errors = {}

\* C20 as stated: a window-size command of the content of a window sends
\* exactly one message on the window-size channel to the content of the
\* same window, carrying the current size of its handle, and changes neither
\* a handle nor the registry.
C20_SizeReportedToSender ==
  [][\A id \in Ids :
       ipcMessage(id, "window-size", <<>>)
       => /\ outbox' = Send(outbox, id, "window-size", windows[id].size)
          /\ windows' = windows
          /\ WindowsList' = WindowsList
    ]_vars

\* C14: createBaseWindow returns a close-promise if and only if the config
\* had a close callback; without one it returns null. (Stated on the last
\* call, whose window is the newest one.)
C14_PromiseIffCallback ==
  result.op = "createBaseWindow"
  => LET id == Len(windows)
     IN /\ wiring[id].options.onclose => result.ret = PromiseOf(id) /\ HasPromise(id)
        /\ ~wiring[id].options.onclose => result.ret = Null /\ ~HasPromise(id)

\* C14 witness: a window created with a callback, which has a close-promise,
\* and then one created without, for which null was returned.
C14_Witness ==
  /\ Len(windows) = 2
  /\ wiring[1].options.onclose /\ HasPromise(1)
  /\ ~wiring[2].options.onclose /\ ~HasPromise(2)
  /\ result = [op |-> "createBaseWindow", arg |-> Str("main"), ret |-> Null,
               threw |-> FALSE]

\* C17: the registry is never pruned. No step takes a name out of the
\* registry, and a step that creates no window (a message, a close edge, the
\* destruction of a window) leaves every registered handle returned by
\* get(its name), also once the window is closed and its promise fulfilled.
C17_RegistryNeverPruned ==
  [][/\ RegisteredNames(WindowsList) \subseteq RegisteredNames(WindowsList')
     /\ Len(windows') = Len(windows)
        => \A id \in RegisteredIds(WindowsList) :
             Get(WindowsList', Str(wiring[id].options.name)) = Return(Win(id))
    ]_vars

\* C17 witness: a registered window that was closed and destroyed, with its
\* close-promise fulfilled, still in the registry.
C17_Witness ==
  \E id \in RegisteredIds(WindowsList) :
    /\ windows[id].closed
    /\ promise[id].state = "fulfilled"
    /\ Get(WindowsList, Str(wiring[id].options.name)) = Return(Win(id))

\* ------------------------------------------------------------- window content
\* The messages sent to the content of window id on a channel.
SentOn(id, channel) == SelectSeq(outbox[id], LAMBDA m : m.channel = channel)

\* C18: the creation arguments are delivered on window-arguments at most
\* once, only after the content's dom-ready signal, and only when the config
\* supplied args: after the first dom-ready signal of a window created with
\* args there is exactly one such message, however many signals followed, and
\* otherwise there is none.
C18_ArgumentsDeliveredOnce ==
  \A id \in Ids :
    Len(SentOn(id, "window-arguments")) =
      (IF wiring[id].managed /\ Truthy(wiring[id].options.args) /\ windows[id].loads > 0
       THEN 1 ELSE 0)

\* C18 witness: a window created with args whose content signalled dom-ready
\* twice and got the arguments once.
C18_Witness ==
  \E id \in Ids :
    /\ Truthy(wiring[id].options.args)
    /\ windows[id].loads = 2
    /\ outbox[id] = <<[channel |-> "window-arguments",
                       payload |-> wiring[id].options.args]>>

C19_HiddenUntilReadyToShow ==
  \A id \in Ids :
    wiring[id].managed /\ windows[id].show => windows[id].ready

\* C21: every native resize of a managed window, whether the user or a
\* window-resize command caused it, sends exactly one window-resized message
\* to the content of that window, and the message carries the size the handle
\* has at that moment; no other window receives anything.
C21_ResizeReportsCurrentSize ==
  [][\A id \in Ids :
       (wiring[id].managed /\ windows[id].resizePending /\ ~windows'[id].resizePending)
       => /\ outbox'[id] = Append(outbox[id], [channel |-> "window-resized",
                                                payload |-> windows'[id].size])
          /\ windows'[id].size = windows[id].size
          /\ \A other \in Ids \ {id} : outbox'[other] = outbox[other]]_vars

\* A window created with one size, resized twice (so the size it reports is
\* not the creation size), notified after each resize.
C21_Witness ==
  \E id \in Ids :
    /\ wiring[id].managed
    /\ ~windows[id].resizePending
    /\ Len(SentOn(id, "window-resized")) = 2
    /\ SentOn(id, "window-resized")[2].payload = windows[id].size
    /\ SentOn(id, "window-resized")[1].payload # windows[id].size
    /\ windows[id].size # wiring[id].options.size

\* C22: the options of a window record are never modified after creation.
\* A step that creates no window leaves the whole registry and the options of
\* every window as they were: the resize, size and center handlers change
\* the handle and the messages only. A step that creates a window writes the
\* entry of its own name only and leaves the options of the older windows.
C22_OptionsImmutable ==
  [][/\ \A id \in Ids : wiring'[id].options = wiring[id].options
     /\ Len(windows') = Len(windows) => WindowsList' = WindowsList
     /\ Len(windows') > Len(windows)
        => \A i \in 1..Len(WindowsList) :
             \/ WindowsList'[i] = WindowsList[i]
             \/ WindowsList'[i].name = wiring'[Len(windows')].options.name
    ]_vars

\* C22 witness: a registered window that was resized and centered by
\* commands, so that its handle no longer has the size of its options, with
\* the record still holding the options it was created with.
C22_Witness ==
  \E i \in 1..Len(WindowsList) :
    LET id == WindowsList[i].window
    IN /\ windows[id].size # WindowsList[i].options.size
       /\ windows[id].centered
       /\ Len(SentOn(id, "window-size")) > 0
       /\ WindowsList[i].options = wiring[id].options

\* ------------------------------------------------------------------- logging
\* C23: a request for a category logger made before the configurator was
\* initialized throws; once init has completed, every request returns the
\* logger of the category asked for; and nothing resets the initialized
\* state, not even a later init that fails.
C23_LoggerOnlyAfterInit ==
  [][/\ initialized => initialized'
     /\ (result'.op = "logger.init" /\ ~result'.threw) => initialized'
     /\ (result'.op = "logger.get" /\ nEvents' # nEvents)
        => /\ result'.threw <=> ~initialized
           /\ initialized => result'.ret = Logger(result'.arg.v[1])
           /\ initialized' = initialized
    ]_vars

\* C23 witness: after init and two other calls, a request that returned a
\* logger.
C23_Witness ==
  /\ initialized
  /\ nEvents >= 3
  /\ result.op = "logger.get"
  /\ ~result.threw
  /\ result.ret.t = "logger"

\* The names of the entries of a configured list.
NamesOf(list) == {list[i].name : i \in 1..Len(list)}

\* What C28 says of a loaded configuration whose categories are named by
\* the set names: one file output and one category per name, every output
\* capped at 10 MB with 3 compressed backups and a file of its own, and every
\* category writing to the output of its own name only.
LoggingConfigurationFor(names) ==
  /\ NamesOf(configuration.appenders) = names
  /\ NamesOf(configuration.categories) = names
  /\ Len(configuration.appenders) = Cardinality(names)
  /\ Len(configuration.categories) = Cardinality(names)
  /\ \A i \in 1..Len(configuration.appenders) :
       LET a == configuration.appenders[i].appender
       IN /\ a.type = "file"
          /\ a.maxLogSize = 10 * 1024 * 1024
          /\ a.backups = 3
          /\ a.compress
          /\ \A j \in 1..Len(configuration.appenders) :
               configuration.appenders[j].appender.filename = a.filename => j = i
  /\ \A i \in 1..Len(configuration.categories) :
       configuration.categories[i].appenders = <<configuration.categories[i].name>>
  /\ \A r \in logFiles :
       r.filename = Named(configuration.appenders, r.category)[1].appender.filename

\* C28 as stated: the fixed categories are default, main, renderer and
\* f95-api-client.
C28_CategoriesAsStated ==
  initialized => LoggingConfigurationFor({"default", "main", "renderer", "f95-api-client"})

\* C28 amended: the fixed categories are default, main, renderer and f95;
\* each has one rotating-file output capped at 10 MB with 3 compressed
\* backups, and each category writes only to its own output.
C28_LoggingConfiguration ==
  initialized => LoggingConfigurationFor({"default", "main", "renderer", "f95"})

\* C28 witness: a configured process in which two categories have logged.
C28_Witness ==
  /\ initialized
  /\ \E r1, r2 \in logFiles : r1.category = "f95" /\ r2.category = "main"

\* ------------------------------------------------------------- preload bridge
\* C24: the bridge forwards to the main process only on channels of the
\* allow-list: whatever the content calls (send, invoke, translate,
\* F95.login), every message that leaves is on an allow-listed channel, and
\* a send or invoke on another channel forwards nothing and logs one warning.
C24_OnlyAllowListedForwarded ==
  [][/\ \A i \in 1..Len(bridge'.forwarded) :
          Includes(validSendChannels, bridge'.forwarded[i].channel)
     /\ (/\ result'.op \in {"API.send", "API.invoke"}
         /\ nEvents' # nEvents
         /\ ~Includes(validSendChannels, result'.arg.v[1]))
        => /\ bridge'.forwarded = bridge.forwarded
           /\ bridge'.warned = bridge.warned + 1
    ]_vars

\* --------------------------------------------------------------- localization
\* The regular files of the resource directory whose name ends in .json.
JsonFiles == {i \in 1..Len(directory) :
                directory[i].isFile /\ EndsWith(directory[i].name, DotJson)}

\* A file name without its .json suffix.
Stem(name) == SubSeq(name, 1, Len(name) - Len(DotJson))

\* C25: when a *.json file of the directory is malformed, localization init
\* fails as a whole: the call throws to its caller and the engine is left as
\* it was, neither initialized with the files that did parse nor switched to
\* another language.
C25_MalformedFileAbortsInit ==
  [][(result'.op = "initLocalization" /\ nEvents' # nEvents)
     => /\ result'.threw <=> \E i \in JsonFiles : directory[i].malformed
        /\ result'.threw => i18next' = i18next
        /\ ~result'.threw => i18next'.isInitialized
    ]_vars

\* C25 witness: a directory with a well-formed en.json and a malformed
\* it.json, an init that threw, and an engine still not initialized.
C25_Witness ==
  /\ result.op = "initLocalization"
  /\ result.threw
  /\ ~i18next.isInitialized
  /\ \E i, j \in JsonFiles : directory[i].malformed /\ ~directory[j].malformed

\* C26: the table a completed init built has exactly one entry per regular
\* file of the directory whose name ends in .json, keyed by the name of the
\* file without the suffix and holding the bundle of that file; nothing else
\* contributes an entry.
C26_OneEntryPerJsonFile ==
  i18next.isInitialized
  => /\ Len(i18next.resources) = Cardinality(JsonFiles)
     /\ \A i \in JsonFiles :
          \E j \in 1..Len(i18next.resources) :
            /\ i18next.resources[j].key = Stem(directory[i].name)
            /\ i18next.resources[j].resource.from = directory[i].name

\* The step is a completed call of an operation of the localization loader.
LocalizationStep(op) == result'.op = op /\ nEvents' # nEvents

C29_DefaultsOfEmptyStore ==
  store = EmptyStore
  => \A id \in Ids :
       /\ wiring[id].options.name = "main"
       /\ wiring[id].options.size = Size(1024, 620)
       /\ wiring[id].options.minSize = Size(1024, 620)
       /\ windows[id].size = Size(1024, 620)
       /\ ~windows[id].maximized
       /\ wiring[id].options.args =
            Object(<< <<"menubar", Bool(FALSE)>>, <<"open-copy-links", Bool(TRUE)>> >>)
       /\ windows[id].menuBar = isDev

\* C29 witness: a packaged build with an empty store whose main window was
\* created, has loaded and is shown, with the menu bar hidden.
C29_Witness ==
  /\ store = EmptyStore
  /\ ~isDev
  /\ Get(WindowsList, Str("main")).ret.t = "window"
  /\ \E id \in Ids :
       /\ Get(WindowsList, Str("main")).ret = Win(id)
       /\ wiring[id].options.size = Size(1024, 620)
       /\ ~windows[id].menuBar
       /\ ~windows[id].maximized
       /\ windows[id].show
       /\ ~windows[id].loading

\* ------------------------------------------------------------ order of close
\* The edge the step adds to the edges of window id, if it adds one.
NewEdge(id) == fired'[id][Len(fired[id]) + 1]

\* C30: on the IPC-close edge the listener invokes the callback, sets the
\* closed-via-IPC flag, requests the close of the handle and resolves the
\* promise, in this order. As the flag is set before the close is requested,
\* a native close event that the request triggers, inside the call or later,
\* does not invoke the callback: the IPC-close step adds exactly the one call
\* with the IPC arguments, and a native close after it adds none.
C30_FlagBeforeCloseRequest ==
  [][/\ IpcCloseSteps = <<"onclose", "closeWithIPC", "close", "resolve">>
     /\ \A id \in Ids :
          (promise[id].state # "none" /\ Len(fired'[id]) > Len(fired[id]))
          => IF NewEdge(id).edge = "ipc"
             THEN /\ oncloseCalls'[id] =
                       Append(oncloseCalls[id], OncloseArguments(NewEdge(id).args))
                  /\ wiring'[id].closeWithIPC
                  /\ windows'[id].closeRequested
                  /\ ResolveValue(NewEdge(id).args).threw
                     \/ promise'[id] = Resolve(promise[id], ResolveValue(NewEdge(id).args).ret)
             ELSE wiring[id].closeWithIPC
                  => oncloseCalls'[id] = oncloseCalls[id] /\ promise'[id] = promise[id]
    ]_vars

\* C30 witness: one window-close message whose close request made the host
\* emit "close" at once: both edges fired in one step, the callback ran once
\* with the IPC arguments, and the promise holds the IPC arguments.
C30_Witness ==
  \E id \in Ids :
    /\ nEvents = 1
    /\ Len(fired[id]) = 2
    /\ fired[id][1].edge = "ipc"
    /\ fired[id][2].edge = "native"
    /\ Len(oncloseCalls[id]) = 1
    /\ oncloseCalls[id][1] # <<Null>>
    /\ promise[id].state = "fulfilled"
    /\ promise[id].value.t = "array"

\* ---------------------------------------------------------------- armed promise
\* C31: a close-promise is never fulfilled before one of its two trigger
\* edges has fired. Whenever the promise of a window is fulfilled, a
\* window-close message or a native close event of that window has been
\* handled; and the only steps that settle a promise are those that handle
\* such an edge of that window: no load, resize, command or other event does.
C31_FulfilledOnlyByAnEdge ==
  [][/\ \A id \in 1..Len(windows') :
          promise'[id].state = "fulfilled" => fired'[id] # <<>>
     /\ \A id \in Ids :
          promise'[id] # promise[id]
          => /\ promise[id].state = "pending"
             /\ Len(fired'[id]) = Len(fired[id]) + 1
             /\ \A other \in Ids \ {id} : promise'[other] = promise[other]
    ]_vars

\* C31 witness: two armed windows; the first was resized by a command and is
\* still pending with no edge fired, the second had an edge and is fulfilled.
C31_Witness ==
  /\ Len(windows) = 2
  /\ promise[1].state = "pending" /\ fired[1] = <<>>
  /\ windows[1].size # wiring[1].options.size
  /\ promise[2].state = "fulfilled" /\ fired[2] # <<>>

\* ------------------------------------------------------------ reserved channel
\* C32: a window-close message runs no command of the router: sizes and
\* positions of the handles, the registry, the outgoing messages and the
\* logged errors stay what they were. For a window created without a close
\* callback the message has no effect at all: no callback is invoked, no
\* close of the handle is requested, and nothing else changes.
C32_CloseChannelReserved ==
  [][\A id \in Ids, m \in ReservedMessages :
       ipcMessage(id, m.channel, m.args)
       => /\ Geometry(windows') = Geometry(windows)
          /\ WindowsList' = WindowsList
          /\ outbox' = outbox
          /\ errors' = errors
          /\ ~wiring[id].options.onclose
             => /\ windows' = windows
                /\ oncloseCalls' = oncloseCalls
                /\ promise' = promise
                /\ fired' = fired
                /\ wiring' = wiring
                /\ uncaught' = uncaught
    ]_vars

\* C32 witness: a window without a close callback whose content sent
\* window-close as often as the run allows; no close was requested, and no
\* callback ran.
C32_Witness ==
  /\ Len(windows) = 1
  /\ ~wiring[1].options.onclose
  /\ nEvents = MaxEvents
  /\ ~windows[1].closeRequested
  /\ ~windows[1].closeEmitted
  /\ oncloseCalls[1] = <<>>

\* ------------------------------------------------------------ order of the clamp
\* x is inside the bounds lo and hi, each counted only when present.
Within(x, lo, hi) == (lo = -1 \/ x >= lo) /\ (hi = -1 \/ x <= hi)

\* C33: the size a window-resize command applies never exceeds maxSize in
\* either dimension when the record has a maxSize, also when its minSize is
\* larger; a payload inside [minSize, maxSize] is applied as it is; and a
\* resize command carrying the applied size would apply the same size again.
C33_MaxSizeWinsAndClampIsIdempotent ==
  [][\A id \in Ids, a \in ResizeArgs :
       ipcMessage(id, "window-resize", a) =>
         LET o == RecordOf(id).options
             applied == windows'[RecordOf(id).window].size
             width == a[1].v[1]
             height == a[2].v[1]
         IN /\ Present(o.maxSize)
                 => applied.width <= o.maxSize.width /\ applied.height <= o.maxSize.height
            /\ Within(width, o.minSize.width, o.maxSize.width)
                 /\ Within(height, o.minSize.height, o.maxSize.height)
                 => applied = Size(width, height)
            /\ ClampToOptions(applied.width, applied.height, o) = applied
    ]_vars

\* C33 witness: a window whose minSize is wider than its maxSize after a
\* resize command that raised its height to the maximum; its width is the
\* maximum, below the minimum.
C33_Witness ==
  /\ Len(windows) = 1
  /\ nEvents > 0
  /\ Present(wiring[1].options.maxSize)
  /\ Present(wiring[1].options.minSize)
  /\ wiring[1].options.minSize.width > wiring[1].options.maxSize.width
  /\ windows[1].size.width = wiring[1].options.maxSize.width
  /\ windows[1].size.height = wiring[1].options.maxSize.height
  /\ windows[1].size # wiring[1].options.size

\* ------------------------------------------------------------ interleaved calls
\* C34: a call of createMainWindow that creates a window registers its record
\* under main, captures the handle and the close-promise of that window,
\* installs the window-open handler on it and starts its load, all in the
\* step that ends at its await. What a call captured never changes
\* afterwards: a suspended call only ever returns, when the load of its own
\* handle ends, and returns the promise it captured, whatever other calls
\* ran in between. While a call is suspended the registry has a record under
\* the name main.
C34_EachCallKeepsItsOwnWindow ==
  [][/\ Len(windows') > Len(windows)
        => LET id == Len(windows')
               f == frames'[Len(frames')]
           IN /\ Len(frames') = Len(frames) + 1
              /\ Get(WindowsList', Str("main")).ret = Win(id)
              /\ f.w = Win(id)
              /\ f.onClosePromise =
                   IF wiring'[id].options.onclose THEN PromiseOf(id) ELSE Null
              /\ promise'[id].state =
                   IF wiring'[id].options.onclose THEN "pending" ELSE "none"
              /\ f.awaiting
              /\ windows'[id].loading
              /\ wiring'[id].windowOpenHandler
     /\ \A i \in DOMAIN frames :
          /\ frames'[i].w = frames[i].w
          /\ frames'[i].onClosePromise = frames[i].onClosePromise
          /\ frames'[i] # frames[i]
             => /\ frames[i].awaiting
                /\ ~frames'[i].awaiting
                /\ frames'[i].ret = frames[i].onClosePromise
                /\ windows[frames[i].w.v[1]].loading
                /\ ~windows'[frames[i].w.v[1]].loading
     /\ \A i \in DOMAIN frames' :
          frames'[i].awaiting
          => /\ Get(WindowsList', Str("main")).ret.t = "window"
             /\ IndexOf(WindowsList', wiring'[frames'[i].w.v[1]].options.name) > 0
    ]_vars

\* C34 witness: two calls interleaved at the await: both created a window
\* with a close callback and are suspended on its load, each holding its own
\* handle and promise, while the registry names the second window.
C34_Witness ==
  /\ Len(frames) = 2
  /\ frames[1] = [w |-> Win(1), onClosePromise |-> PromiseOf(1),
                   awaiting |-> TRUE, ret |-> Unsettled]
  /\ frames[2] = [w |-> Win(2), onClosePromise |-> PromiseOf(2),
                   awaiting |-> TRUE, ret |-> Unsettled]
  /\ windows[1].loading
  /\ windows[2].loading
  /\ Get(WindowsList, Str("main")).ret = Win(2)

\* ------------------------------------------------------------ links
\* C35: every main window has the window-open handler from the step that
\* creates it. Each request of its content for a new window is denied and
\* creates no window, and does exactly one thing with the URL, chosen by the
\* open-links-in-default-browser setting as it is when the request arrives
\* (true when absent): it hands the URL to the default browser and leaves
\* the clipboard alone, or writes it to the clipboard and opens nothing.
C35_DenyAndOpenOrCopy ==
  [][/\ \A id \in DOMAIN wiring' :
          wiring'[id].options.name = "main" => wiring'[id].windowOpenHandler
     /\ \A id \in Ids, url \in Urls :
          windowOpen(id, url)
          => LET setting == store["open-links-in-default-browser"]
                 open == setting = Undefined \/ setting = Bool(TRUE)
             IN /\ result'.ret = Object(<< <<"action", Str("deny")>> >>)
                /\ windows' = windows
                /\ WindowsList' = WindowsList
                /\ open => /\ desktop'.openExternal = Append(desktop.openExternal, url)
                           /\ desktop'.writeText = desktop.writeText
                /\ ~open => /\ Len(desktop'.writeText) = Len(desktop.writeText) + 1
                            /\ desktop'.writeText[Len(desktop'.writeText)][1] = url
                            /\ desktop'.openExternal = desktop.openExternal
    ]_vars

\* C35 witness: a main window created while the setting was absent (its
\* arguments say that links open in the browser); the user then chose
\* copying, and a request of the window was copied to the clipboard, after
\* an earlier one had been opened in the browser.
C35_Witness ==
  /\ Len(windows) = 1
  /\ wiring[1].options.args.v[2] = <<"open-copy-links", Bool(TRUE)>>
  /\ store["open-links-in-default-browser"] = Bool(FALSE)
  /\ Len(desktop.openExternal) = 1
  /\ Len(desktop.writeText) = 1
  /\ result.op = "windowOpenHandler"
  /\ result.arg = Str(desktop.writeText[1][1])

\* ------------------------------------------------------------ user-info columns
\* C36: on the attached user-info element every call of showSpinner,
\* hideSpinner or login and every assignment of a truthy value to userdata
\* leaves exactly one of the three columns displayed, and no step takes the
\* element from one displayed column to none or several. An assignment of a
\* falsy value to userdata changes neither the stored user data nor the
\* display of any column.
C36_OneColumnDisplayed ==
  [][/\ (showSpinner \/ hideSpinner \/ login
           \/ \E val \in UserdataValues : Truthy(val) /\ userdata(val))
        /\ userInfo.connected
        => Cardinality(Displayed(userInfo'.display)) = 1
     /\ Cardinality(Displayed(userInfo.display)) = 1
        => Cardinality(Displayed(userInfo'.display)) = 1
     /\ \A val \in UserdataValues :
          ~Truthy(val) /\ userdata(val)
          => /\ userInfo'._userdata = userInfo._userdata
             /\ userInfo'.display = userInfo.display
             /\ userInfo'.username = userInfo.username
             /\ userInfo'.avatar = userInfo.avatar
    ]_vars

\* C36 witness: an attached element after a login, an assignment of user
\* data with an avatar, and a last assignment of null: the username column
\* alone is displayed and the user data are the ones assigned before.
C36_Witness ==
  /\ userInfo.connected
  /\ userInfo.dispatched = 1
  /\ userInfo.call = <<"userdata", Null>>
  /\ userInfo._userdata =
       Object(<< <<"username", Str("user")>>, <<"avatarSrc", Str("avatar.png")>> >>)
  /\ userInfo.avatar = Str("avatar.png")
  /\ Displayed(userInfo.display) = {"col-username"}

=============================================================================
